---- MODULE Spec2Model ----
(***************************************************************************)
(* Model of coolify-resource-reconciler: the Coolify API client            *)
(* (src/src/coolify.ts), the remote platform it talks to, and the          *)
(* reconciliation engine that drives it.                                   *)
(***************************************************************************)
EXTENDS Integers, Sequences, FiniteSets, TLC

(***************************************************************************)
(* Bounds of the model                                                     *)
(***************************************************************************)
\* longest listing of remote applications the platform starts with
MaxInitApps == 2
\* number of client calls a caller makes in the client-level specification
MaxCalls == 2
\* largest timeoutMs and intervalMs a caller passes to waitForDeployment, and the
\* longest a response or a timer is late, in units of the clock
MaxTimeout == 3
MaxInterval == 2
MaxLatency == 1

(***************************************************************************)
(* Values                                                                  *)
(***************************************************************************)
\* JS null / undefined for strings
Null == "null"
Undefined == "undefined"
\* an environmentId argument that was not passed (JS undefined)
UndefinedId == 0

Names == {"api", "web", "old"}
EnvIds == {1, 2}
Tags == {"v1", "v2"}

\* environments of the project, as GET /projects/{id}/environments lists them
Environments ==
  << [id |-> 1, uuid |-> "env-prod", name |-> "production"],
     [id |-> 2, uuid |-> "env-stg", name |-> "staging"] >>

EnvironmentNames == {"production", "staging", "missing"}

\* uuids the platform hands out to applications it creates
NewUuids == <<"n1", "n2", "n3">>
ExistingUuids == {"a1", "a2", "a3", "a4", "a5"}
AppUuids == ExistingUuids \cup {NewUuids[i] : i \in 1..Len(NewUuids)}

\* the deployment uuid the platform assigns to a deployment of an application
DeploymentUuid ==
  [u \in AppUuids |->
     CASE u = "a1" -> "d-a1" [] u = "a2" -> "d-a2" [] u = "a3" -> "d-a3"
       [] u = "a4" -> "d-a4" [] u = "a5" -> "d-a5" [] u = "n1" -> "d-n1" [] u = "n2" -> "d-n2"
       [] OTHER -> "d-n3"]

DeploymentUuids == {DeploymentUuid[u] : u \in AppUuids}

DeploymentStatuses == {"none", "queued", "in_progress", "finished", "failed"}

\* environment variables of an application: records with a unique key
EnvKeys == {"A", "B", "C"}
EnvVarUuid ==
  [k \in EnvKeys |-> CASE k = "A" -> "ev-A" [] k = "B" -> "ev-B" [] OTHER -> "ev-C"]
EnvVarUuids == {EnvVarUuid[k] : k \in EnvKeys}

\* the absent application (a find that returns null)
NullApp == [uuid |-> Null, name |-> Null, environment_id |-> UndefinedId,
            tag |-> Null, envs |-> {}]

\* applications that may exist on the platform before the program runs
AppPool ==
  { [uuid |-> "a1", name |-> "api", environment_id |-> 1, tag |-> "v1",
     envs |-> {[uuid |-> "ev-B", key |-> "B", value |-> "old"],
               [uuid |-> "ev-C", key |-> "C", value |-> "3"]}],
    [uuid |-> "a2", name |-> "api", environment_id |-> 2, tag |-> "v1", envs |-> {}],
    [uuid |-> "a3", name |-> "old", environment_id |-> 1, tag |-> "v1", envs |-> {}],
    [uuid |-> "a4", name |-> "web", environment_id |-> 2, tag |-> "v2", envs |-> {}] }

RECURSIVE SeqsOver(_, _)
\* the sequences of at most n distinct elements of S
SeqsOver(S, n) ==
  IF n = 0 THEN {<<>>}
  ELSE LET shorter == SeqsOver(S, n - 1)
       IN shorter \cup
          {Append(s, x) : s \in {t \in shorter : Len(t) = n - 1},
                          x \in S}

Range(s) == {s[i] : i \in 1..Len(s)}
NoDup(s) == \A i, j \in 1..Len(s) : i # j => s[i] # s[j]
InitialListings == {s \in SeqsOver(AppPool, MaxInitApps) : NoDup(s)}

VARIABLES
  dryRun,       \* CoolifyClient.dryRun
  apps,         \* platform: the applications, in listing order
  deployments,  \* platform: status of the deployment of each application
  sent,         \* the requests fetch() was called with since the log was cleared
  ret,          \* the outcome of the last client call
  calls,        \* number of client calls made so far
  wait,         \* the calls of waitForDeployment, one per task
  manifest,     \* ReconcilerOptions.manifest
  envSecrets,   \* ReconcilerOptions.envSecrets: the names of the secrets supplied
  run,          \* the engine: its phase, the resolved environment, what is left to prune
  res,          \* the engine's task for each declared resource
  results       \* ReconcileResult.resources

engineVars == <<manifest, envSecrets, run, res, results>>
vars == <<dryRun, apps, deployments, sent, ret, calls, wait, engineVars>>

(***************************************************************************)
(* The platform's side of each endpoint                                    *)
(***************************************************************************)
\* an HTTP response is a status, whether the content type is JSON and whether
\* the JSON body has a message
Responses ==
  { [status |-> 200, json |-> TRUE, message |-> FALSE],
    [status |-> 204, json |-> FALSE, message |-> FALSE],
    [status |-> 401, json |-> TRUE, message |-> TRUE],
    [status |-> 403, json |-> FALSE, message |-> FALSE],
    [status |-> 422, json |-> TRUE, message |-> FALSE],
    [status |-> 500, json |-> FALSE, message |-> FALSE] }
Ok(resp) == resp.status >= 200 /\ resp.status <= 299
ErrorResponses == {r \in Responses : ~Ok(r)}

HasApp(as, uuid) == \E i \in 1..Len(as) : as[i].uuid = uuid
AppOf(as, uuid) ==
  IF HasApp(as, uuid) THEN as[CHOOSE i \in 1..Len(as) : as[i].uuid = uuid]
  ELSE NullApp

\* the responses the platform can give to a request about application uuid
ResponsesFor(as, uuid) == IF HasApp(as, uuid) THEN Responses ELSE ErrorResponses

FreshUuids(as) == {i \in 1..Len(NewUuids) : ~HasApp(as, NewUuids[i])}
FreshUuid(as) == NewUuids[CHOOSE i \in FreshUuids(as) : \A j \in FreshUuids(as) : i <= j]

EnvironmentIdOf(uuid) ==
  IF \E i \in 1..Len(Environments) : Environments[i].uuid = uuid
  THEN Environments[CHOOSE i \in 1..Len(Environments) : Environments[i].uuid = uuid].id
  ELSE UndefinedId

\* POST /api/v1/applications/dockerimage
PlatformCreate(as, body) ==
  Append(as, [uuid |-> FreshUuid(as), name |-> body.name,
              environment_id |-> EnvironmentIdOf(body.environment_uuid),
              tag |-> body.docker_registry_image_tag, envs |-> {}])

\* PATCH /api/v1/applications/{uuid}
PlatformUpdate(as, uuid, body) ==
  [i \in 1..Len(as) |->
     IF as[i].uuid = uuid
     THEN [as[i] EXCEPT !.name = body.name, !.tag = body.docker_registry_image_tag]
     ELSE as[i]]

\* PATCH /api/v1/applications/{uuid}/envs/bulk
PlatformUpsertEnvs(as, uuid, envVars) ==
  [i \in 1..Len(as) |->
     IF as[i].uuid = uuid
     THEN [as[i] EXCEPT !.envs =
             {e \in as[i].envs : \A v \in envVars : v.key # e.key}
             \cup {[uuid |-> EnvVarUuid[v.key], key |-> v.key, value |-> v.value] :
                     v \in envVars}]
     ELSE as[i]]

\* DELETE /api/v1/applications/{uuid}/envs/{envUuid}
PlatformDeleteEnv(as, uuid, envUuid) ==
  [i \in 1..Len(as) |->
     IF as[i].uuid = uuid
     THEN [as[i] EXCEPT !.envs = {e \in as[i].envs : e.uuid # envUuid}]
     ELSE as[i]]

\* DELETE /api/v1/applications/{uuid}
PlatformDelete(as, uuid) == SelectSeq(as, LAMBDA a : a.uuid # uuid)

\* POST /api/v1/deploy
PlatformDeploy(ds, uuid) == [ds EXCEPT ![uuid] = "queued"]

\* the application a deployment uuid belongs to
DeployedApp(depUuid) ==
  IF depUuid \in DeploymentUuids
  THEN CHOOSE u \in AppUuids : DeploymentUuid[u] = depUuid
  ELSE Null

HasDeployment(ds, depUuid) ==
  depUuid \in DeploymentUuids /\ ds[DeployedApp(depUuid)] # "none"

(***************************************************************************)
(* CoolifyClient                                                           *)
(***************************************************************************)
\* an error message that never carries the token-scope hint
ErrorMessage_noHint(resp) ==
  [text |-> IF resp.json /\ resp.message THEN "remote message"
            ELSE "HTTP status: statusText",
   status |-> resp.status,
   hint |-> FALSE]

\* the message of the error request() throws on a non-2xx response:
\* error?.message ?? `HTTP ${status}: ${statusText}`, plus the hint on 401/403
ErrorMessage(resp) ==
  [text |-> IF resp.json /\ resp.message THEN "remote message"
            ELSE "HTTP status: statusText",
   status |-> resp.status,
   hint |-> (resp.status = 401 \/ resp.status = 403)]

NoError == [text |-> "", status |-> 0, hint |-> FALSE]
NullResponseError == [text |-> "unexpected null response", status |-> 0, hint |-> FALSE]

Request(method, path, target) == [method |-> method, path |-> path, target |-> target]

\* a request() that fails on a successful response without a JSON body
request_crashOnEmpty(resp, body) ==
  IF ~Ok(resp)
  THEN [threw |-> TRUE, isNull |-> TRUE, value |-> body, error |-> ErrorMessage(resp)]
  ELSE IF resp.json
       THEN [threw |-> FALSE, isNull |-> FALSE, value |-> body, error |-> NoError]
       ELSE [threw |-> TRUE, isNull |-> TRUE, value |-> body, error |-> NullResponseError]

\* a request() that hands a non-2xx response back like any other
request_noThrow(resp, body) ==
  IF resp.json
  THEN [threw |-> FALSE, isNull |-> FALSE, value |-> body, error |-> NoError]
  ELSE [threw |-> FALSE, isNull |-> TRUE, value |-> body, error |-> NoError]

\* request(): throws on non-2xx, returns the JSON body, or null without one
request(resp, body) ==
  IF ~Ok(resp)
  THEN [threw |-> TRUE, isNull |-> TRUE, value |-> body, error |-> ErrorMessage(resp)]
  ELSE IF resp.json
       THEN [threw |-> FALSE, isNull |-> FALSE, value |-> body, error |-> NoError]
       ELSE [threw |-> FALSE, isNull |-> TRUE, value |-> body, error |-> NoError]

\* requestRequired(): request() that throws on a null result
requestRequired(resp, body) ==
  LET result == request(resp, body)
  IN IF ~result.threw /\ result.isNull
     THEN [result EXCEPT !.threw = TRUE, !.error = NullResponseError]
     ELSE result

\* what a client method hands back: its outcome, the platform it leaves and
\* the requests it passed to fetch()
Outcome(threw, isNull, value, error, as, ds, requests) ==
  [threw |-> threw, isNull |-> isNull, value |-> value, error |-> error,
   apps |-> as, deployments |-> ds, requests |-> requests]

\* listApplications answering a dry run with mock data
listApplications_mock(resp) ==
  IF dryRun
  THEN Outcome(FALSE, FALSE, <<>>, NoError, apps, deployments, {})
  ELSE LET result == request(resp, apps)
       IN Outcome(result.threw, FALSE, IF result.isNull THEN <<>> ELSE result.value,
                  result.error, apps, deployments,
                  {Request("GET", "/api/v1/applications", "")})

listApplications(resp) ==
  LET result == request(resp, apps)
  IN Outcome(result.threw, FALSE, IF result.isNull THEN <<>> ELSE result.value,
             result.error, apps, deployments,
             {Request("GET", "/api/v1/applications", "")})

listEnvironments(projectId, resp) ==
  LET result == request(resp, Environments)
  IN Outcome(result.threw, FALSE, IF result.isNull THEN <<>> ELSE result.value,
             result.error, apps, deployments,
             {Request("GET", "/api/v1/projects/{id}/environments", projectId)})

NullEnvironment == [id |-> UndefinedId, uuid |-> Null, name |-> Null]

\* findEnvironmentByName falling back to the first environment of the project
findEnvironmentByName_firstAsDefault(projectId, name, resp) ==
  LET listed == listEnvironments(projectId, resp)
      environments == listed.value
      hits == {i \in 1..Len(environments) : environments[i].name = name}
  IN IF listed.threw THEN [listed EXCEPT !.value = NullEnvironment, !.isNull = TRUE]
     ELSE IF hits = {}
          THEN [listed EXCEPT !.value = environments[1]]
          ELSE [listed EXCEPT
                  !.value = environments[CHOOSE i \in hits : \A j \in hits : i <= j]]

findEnvironmentByName(projectId, name, resp) ==
  LET listed == listEnvironments(projectId, resp)
      environments == listed.value
      hits == {i \in 1..Len(environments) : environments[i].name = name}
  IN IF listed.threw THEN [listed EXCEPT !.value = NullEnvironment, !.isNull = TRUE]
     ELSE IF hits = {}
          THEN [listed EXCEPT !.value = NullEnvironment, !.isNull = TRUE]
          ELSE [listed EXCEPT
                  !.value = environments[CHOOSE i \in hits : \A j \in hits : i <= j]]

\* findApplicationByName looking at the first listed application only
findApplicationByName_firstListed(name, environmentId, resp) ==
  LET listed == listApplications(resp)
      applications == listed.value
      hits == {i \in 1..Len(applications) :
                 /\ i = 1
                 /\ applications[i].name = name
                 /\ applications[i].environment_id = environmentId}
  IN IF listed.threw THEN [listed EXCEPT !.value = NullApp, !.isNull = TRUE]
     ELSE IF hits = {}
          THEN [listed EXCEPT !.value = NullApp, !.isNull = TRUE]
          ELSE [listed EXCEPT
                  !.value = applications[CHOOSE i \in hits : \A j \in hits : i <= j]]

\* findApplicationByName matching by name alone
findApplicationByName_nameOnly(name, environmentId, resp) ==
  LET listed == listApplications(resp)
      applications == listed.value
      hits == {i \in 1..Len(applications) : applications[i].name = name}
  IN IF listed.threw THEN [listed EXCEPT !.value = NullApp, !.isNull = TRUE]
     ELSE IF hits = {}
          THEN [listed EXCEPT !.value = NullApp, !.isNull = TRUE]
          ELSE [listed EXCEPT
                  !.value = applications[CHOOSE i \in hits : \A j \in hits : i <= j]]

findApplicationByName(name, environmentId, resp) ==
  LET listed == listApplications(resp)
      applications == listed.value
      hits == {i \in 1..Len(applications) :
                 applications[i].name = name
                 /\ applications[i].environment_id = environmentId}
  IN IF listed.threw THEN [listed EXCEPT !.value = NullApp, !.isNull = TRUE]
     ELSE IF hits = {}
          THEN [listed EXCEPT !.value = NullApp, !.isNull = TRUE]
          ELSE [listed EXCEPT
                  !.value = applications[CHOOSE i \in hits : \A j \in hits : i <= j]]

createDockerImageApplication(options, resp) ==
  IF dryRun
  THEN Outcome(FALSE, FALSE, [uuid |-> "dry-run-uuid"], NoError, apps, deployments, {})
  ELSE LET created == IF Ok(resp) THEN PlatformCreate(apps, options) ELSE apps
           started == IF Ok(resp) /\ options.instant_deploy
                      THEN PlatformDeploy(deployments, FreshUuid(apps))
                      ELSE deployments
           result == requestRequired(resp, [uuid |-> IF Ok(resp) THEN FreshUuid(apps) ELSE Null])
       IN Outcome(result.threw, FALSE, result.value, result.error, created, started,
                  {Request("POST", "/api/v1/applications/dockerimage", "")})

updateApplication(uuid, options, resp) ==
  IF dryRun
  THEN Outcome(FALSE, TRUE, Undefined, NoError, apps, deployments, {})
  ELSE LET result == request(resp, Undefined)
       IN Outcome(result.threw, TRUE, Undefined, result.error,
                  IF Ok(resp) THEN PlatformUpdate(apps, uuid, options) ELSE apps,
                  deployments,
                  {Request("PATCH", "/api/v1/applications/{uuid}", uuid)})

updateEnvironmentVariables(uuid, envVars, resp) ==
  IF dryRun
  THEN Outcome(FALSE, TRUE, Undefined, NoError, apps, deployments, {})
  ELSE LET result == request(resp, Undefined)
       IN Outcome(result.threw, TRUE, Undefined, result.error,
                  IF Ok(resp) THEN PlatformUpsertEnvs(apps, uuid, envVars) ELSE apps,
                  deployments,
                  {Request("PATCH", "/api/v1/applications/{uuid}/envs/bulk", uuid)})

\* listEnvironmentVariables that answers with no variable at all
listEnvironmentVariables_empty(uuid, resp) ==
  LET result == request(resp, {})
  IN Outcome(result.threw, FALSE, {}, result.error, apps, deployments,
             {Request("GET", "/api/v1/applications/{uuid}/envs", uuid)})

listEnvironmentVariables(uuid, resp) ==
  LET result == request(resp, AppOf(apps, uuid).envs)
  IN Outcome(result.threw, FALSE, IF result.isNull THEN {} ELSE result.value,
             result.error, apps, deployments,
             {Request("GET", "/api/v1/applications/{uuid}/envs", uuid)})

deleteEnvironmentVariable(appUuid, envUuid, resp) ==
  IF dryRun
  THEN Outcome(FALSE, TRUE, Undefined, NoError, apps, deployments, {})
  ELSE LET result == request(resp, Undefined)
       IN Outcome(result.threw, TRUE, Undefined, result.error,
                  IF Ok(resp) THEN PlatformDeleteEnv(apps, appUuid, envUuid) ELSE apps,
                  deployments,
                  {Request("DELETE", "/api/v1/applications/{uuid}/envs/{envUuid}",
                                     appUuid)})

\* deleteApplication without its dry-run branch
deleteApplication_noDryRun(uuid, resp) ==
  LET result == request(resp, Undefined)
  IN Outcome(result.threw, TRUE, Undefined, result.error,
             IF Ok(resp) THEN PlatformDelete(apps, uuid) ELSE apps,
             IF Ok(resp) THEN [deployments EXCEPT ![uuid] = "none"] ELSE deployments,
             {Request("DELETE", "/api/v1/applications/{uuid}", uuid)})

deleteApplication(uuid, resp) ==
  IF dryRun
  THEN Outcome(FALSE, TRUE, Undefined, NoError, apps, deployments, {})
  ELSE LET result == request(resp, Undefined)
       IN Outcome(result.threw, TRUE, Undefined, result.error,
                  IF Ok(resp) THEN PlatformDelete(apps, uuid) ELSE apps,
                  IF Ok(resp) THEN [deployments EXCEPT ![uuid] = "none"] ELSE deployments,
                  {Request("DELETE", "/api/v1/applications/{uuid}", uuid)})

deployApplication(uuid, resp) ==
  IF dryRun
  THEN Outcome(FALSE, FALSE, "dry-run-deployment-uuid", NoError, apps, deployments, {})
  ELSE LET result == request(resp, IF uuid \in AppUuids THEN DeploymentUuid[uuid] ELSE Null)
       IN Outcome(result.threw, result.isNull,
                  IF result.threw \/ result.isNull THEN Null ELSE result.value,
                  result.error, apps,
                  IF Ok(resp) THEN PlatformDeploy(deployments, uuid) ELSE deployments,
                  {Request("POST", "/api/v1/deploy", uuid)})

NullDeployment == [status |-> Null, deployment_uuid |-> Null]

\* the body of GET /api/v1/deployments/{uuid}
DeploymentBody(ds, uuid) ==
  IF HasDeployment(ds, uuid)
  THEN [status |-> ds[DeployedApp(uuid)], deployment_uuid |-> uuid]
  ELSE NullDeployment

getDeployment(uuid, resp) ==
  IF dryRun
  THEN Outcome(FALSE, FALSE, [status |-> "finished", deployment_uuid |-> uuid], NoError,
               apps, deployments, {})
  ELSE LET result == request(resp, DeploymentBody(deployments, uuid))
       IN Outcome(result.threw, result.isNull,
                  IF result.threw \/ result.isNull THEN NullDeployment ELSE result.value,
                  result.error, apps, deployments,
                  {Request("GET", "/api/v1/deployments/{uuid}", uuid)})

(***************************************************************************)
(* CoolifyClient.waitForDeployment, one step per suspension point          *)
(***************************************************************************)
\* a call of waitForDeployment(uuid, timeoutMs, intervalMs) that has not started;
\* elapsed is Date.now() - startTime as the call reads it
NewWait(uuid, timeoutMs, intervalMs) ==
  [pc |-> "idle", uuid |-> uuid, timeoutMs |-> timeoutMs, intervalMs |-> intervalMs,
   elapsed |-> 0, polled |-> FALSE, lastSeen |-> "none", outcome |-> "pending",
   value |-> NullDeployment]

\* entry: a dry run returns a finished deployment at once, a live run takes startTime
startWait(w) ==
  IF dryRun
  THEN [w EXCEPT !.pc = "done", !.outcome = "finished",
                 !.value = [status |-> "finished", deployment_uuid |-> w.uuid]]
  ELSE [w EXCEPT !.pc = "loop", !.elapsed = 0]

\* a loop condition that still holds when the timeout has just elapsed
WithinTimeout_inclusive(w) == w.elapsed <= w.timeoutMs

\* a loop condition that also gives up once any wait has failed or timed out
WithinTimeout_untilAnyEnds(w) ==
  /\ w.elapsed < w.timeoutMs
  /\ \A t \in DOMAIN wait : wait[t].outcome \notin {"failed", "timeout"}

\* the loop condition Date.now() - startTime < timeoutMs
WithinTimeout(w) == w.elapsed < w.timeoutMs

\* a loop body that gives up when the deployment is not found
afterPoll_absentEnds(w, got) ==
  IF got.threw THEN [w EXCEPT !.pc = "done", !.outcome = "error"]
  ELSE IF got.isNull THEN [w EXCEPT !.pc = "done", !.outcome = "error",
                                    !.lastSeen = "absent"]
  ELSE IF got.value.status = "finished"
       THEN [w EXCEPT !.pc = "done", !.outcome = "finished", !.value = got.value,
                      !.lastSeen = "finished"]
       ELSE IF got.value.status = "failed"
            THEN [w EXCEPT !.pc = "done", !.outcome = "failed", !.lastSeen = "failed"]
            ELSE [w EXCEPT !.pc = "sleep", !.lastSeen = got.value.status]

\* a loop body that does not end on status "failed"
afterPoll_ignoreFailed(w, got) ==
  IF got.threw THEN [w EXCEPT !.pc = "done", !.outcome = "error"]
  ELSE IF got.isNull THEN [w EXCEPT !.pc = "sleep", !.lastSeen = "absent"]
  ELSE IF got.value.status = "finished"
       THEN [w EXCEPT !.pc = "done", !.outcome = "finished", !.value = got.value,
                      !.lastSeen = "finished"]
       ELSE [w EXCEPT !.pc = "sleep", !.lastSeen = got.value.status]

\* what the loop body does with the deployment a poll returned
afterPoll(w, got) ==
  IF got.threw THEN [w EXCEPT !.pc = "done", !.outcome = "error"]
  ELSE IF got.isNull THEN [w EXCEPT !.pc = "sleep", !.lastSeen = "absent"]
  ELSE IF got.value.status = "finished"
       THEN [w EXCEPT !.pc = "done", !.outcome = "finished", !.value = got.value,
                      !.lastSeen = "finished"]
       ELSE IF got.value.status = "failed"
            THEN [w EXCEPT !.pc = "done", !.outcome = "failed", !.lastSeen = "failed"]
            ELSE [w EXCEPT !.pc = "sleep", !.lastSeen = got.value.status]

\* one poll: getDeployment, which takes latency, then the loop body
poll(w, resp, latency) ==
  afterPoll([w EXCEPT !.polled = TRUE, !.elapsed = w.elapsed + latency],
            getDeployment(w.uuid, resp))

\* the loop is left when the timeout has elapsed
timeOut(w) == [w EXCEPT !.pc = "done", !.outcome = "timeout"]

\* a sleep that leaves the clock where it was
sleep_noProgress(w, late) == [w EXCEPT !.pc = "loop"]

\* setTimeout(resolve, intervalMs): the timer fires after intervalMs or later
sleep(w, late) == [w EXCEPT !.pc = "loop", !.elapsed = w.elapsed + w.intervalMs + late]

(***************************************************************************)
(* Manifest resources and the payloads built from them                     *)
(***************************************************************************)
\* the sub-fields of a resource's healthCheck
HealthCheckFields == {"path", "port", "host", "method", "returnCode", "scheme",
                      "responseText", "interval", "timeout", "retries", "startPeriod"}
\* a resource without healthCheck
NoHealthCheck ==
  [declared |-> FALSE, path |-> Undefined, port |-> Undefined, host |-> Undefined,
   method |-> Undefined, returnCode |-> Undefined, scheme |-> Undefined,
   responseText |-> Undefined, interval |-> Undefined, timeout |-> Undefined,
   retries |-> Undefined, startPeriod |-> Undefined]
\* healthCheck: { path, port }
PathAndPort == [NoHealthCheck EXCEPT !.declared = TRUE, !.path = "/health", !.port = "3000"]

Resources ==
  { [name |-> "api", description |-> "the api", dockerImageName |-> "ghcr.io/o/api",
     envSecretName |-> "COOLIFY_ENV_API", domains |-> "api.example.com",
     portsExposes |-> "3000", healthCheck |-> PathAndPort],
    [name |-> "web", description |-> Undefined, dockerImageName |-> "ghcr.io/o/web",
     envSecretName |-> Undefined, domains |-> "", portsExposes |-> "",
     healthCheck |-> NoHealthCheck] }

\* JS `x || undefined`
OrUndefined(x) == IF x = "" \/ x = Undefined THEN Undefined ELSE x

\* a health-check group that fills in defaults for the sub-fields left out
HealthCheckOptions_defaulted(healthCheck) ==
  [health_check_enabled |-> TRUE,
   health_check_path |-> IF healthCheck.path = Undefined THEN "/" ELSE healthCheck.path,
   health_check_port |-> healthCheck.port,
   health_check_host |-> healthCheck.host,
   health_check_method |-> IF healthCheck.method = Undefined THEN "GET"
                           ELSE healthCheck.method,
   health_check_return_code |-> healthCheck.returnCode,
   health_check_scheme |-> healthCheck.scheme,
   health_check_response_text |-> healthCheck.responseText,
   health_check_interval |-> healthCheck.interval,
   health_check_timeout |-> healthCheck.timeout,
   health_check_retries |-> healthCheck.retries,
   health_check_start_period |-> healthCheck.startPeriod]

\* the keys both builders assign inside `if (resource.healthCheck)`
HealthCheckOptions(healthCheck) ==
  [health_check_enabled |-> TRUE,
   health_check_path |-> healthCheck.path,
   health_check_port |-> healthCheck.port,
   health_check_host |-> healthCheck.host,
   health_check_method |-> healthCheck.method,
   health_check_return_code |-> healthCheck.returnCode,
   health_check_scheme |-> healthCheck.scheme,
   health_check_response_text |-> healthCheck.responseText,
   health_check_interval |-> healthCheck.interval,
   health_check_timeout |-> healthCheck.timeout,
   health_check_retries |-> healthCheck.retries,
   health_check_start_period |-> healthCheck.startPeriod]

\* the object with the health-check keys assigned when the resource has a
\* healthCheck
WithHealthCheck(options, resource) ==
  IF resource.healthCheck.declared
  THEN options @@ HealthCheckOptions(resource.healthCheck)
  ELSE options

\* a create payload that asks the platform to deploy on creation
buildCreateOptions_instantDeploy(resource, projectId, serverId, environmentName, environmentUuid, destinationUuid, dockerTag) ==
  WithHealthCheck(
    [project_uuid |-> projectId,
     server_uuid |-> serverId,
     environment_name |-> environmentName,
     environment_uuid |-> environmentUuid,
     destination_uuid |-> destinationUuid,
     docker_registry_image_name |-> resource.dockerImageName,
     docker_registry_image_tag |-> dockerTag,
     name |-> resource.name,
     description |-> resource.description,
     domains |-> OrUndefined(resource.domains),
     ports_exposes |-> OrUndefined(resource.portsExposes),
     instant_deploy |-> TRUE], resource)

buildCreateOptions(resource, projectId, serverId, environmentName, environmentUuid, destinationUuid, dockerTag) ==
  WithHealthCheck(
    [project_uuid |-> projectId,
     server_uuid |-> serverId,
     environment_name |-> environmentName,
     environment_uuid |-> environmentUuid,
     destination_uuid |-> destinationUuid,
     docker_registry_image_name |-> resource.dockerImageName,
     docker_registry_image_tag |-> dockerTag,
     name |-> resource.name,
     description |-> resource.description,
     domains |-> OrUndefined(resource.domains),
     ports_exposes |-> OrUndefined(resource.portsExposes),
     instant_deploy |-> FALSE], resource)

\* update options that pass the empty string on
buildUpdateOptions_keepEmpty(resource, dockerTag) ==
  WithHealthCheck(
    [docker_registry_image_name |-> resource.dockerImageName,
     docker_registry_image_tag |-> dockerTag,
     name |-> resource.name,
     description |-> resource.description,
     domains |-> resource.domains,
     ports_exposes |-> resource.portsExposes], resource)

buildUpdateOptions(resource, dockerTag) ==
  WithHealthCheck(
    [docker_registry_image_name |-> resource.dockerImageName,
     docker_registry_image_tag |-> dockerTag,
     name |-> resource.name,
     description |-> resource.description,
     domains |-> OrUndefined(resource.domains),
     ports_exposes |-> OrUndefined(resource.portsExposes)], resource)

\* the keys whose value is a boolean
BooleanKeys == {"instant_deploy", "health_check_enabled"}
\* JSON.stringify(body): a key whose value is undefined is left out
JsonBody(options) ==
  [k \in {key \in DOMAIN options : key \in BooleanKeys \/ options[key] # Undefined}
     |-> options[k]]

(***************************************************************************)
(* Client-level specifications: a caller invokes the client's methods, in  *)
(* any order, with any arguments, in dry-run or live mode.  ReadSpec calls *)
(* the read methods, WriteSpec the mutating ones.                          *)
(***************************************************************************)
\* the engine before reconcile() is called
NoManifest == [environmentName |-> Null, resources |-> <<>>]
\* the process has not exited
NoExit == -1

IdleRun == [phase |-> "idle", environment |-> NullEnvironment, toPrune |-> <<>>,
            anomaly |-> FALSE, round |-> 0,
            exitCode |-> NoExit]
EngineIdle ==
  /\ manifest = NoManifest
  /\ envSecrets = {}
  /\ run = IdleRun
  /\ res = <<>>
  /\ results = <<>>

\* deployments that may be under way before the program runs
InitialDeployments ==
  { [u \in AppUuids |-> "none"],
    [u \in AppUuids |-> IF u = "a1" THEN "in_progress" ELSE "none"],
    [u \in AppUuids |-> IF u = "a1" THEN "failed" ELSE "none"] }

NoResponse == [status |-> 0, json |-> FALSE, message |-> FALSE]

NoCall == [op |-> "none", args |-> <<>>, resp |-> NoResponse, threw |-> FALSE,
           isNull |-> TRUE, value |-> Undefined, error |-> NoError]

ClientInit ==
  /\ dryRun \in BOOLEAN
  /\ apps \in InitialListings
  /\ deployments \in {d \in InitialDeployments :
                         \A u \in AppUuids : d[u] # "none" => HasApp(apps, u)}
  /\ sent = {}
  /\ ret = NoCall
  /\ calls = 0
  /\ wait = <<>>
  /\ EngineIdle

\* the caller clears the fetch log, calls a method and receives its outcome;
\* the platform is left as the method left it
Return(op, args, resp, out) ==
  /\ apps' = out.apps
  /\ deployments' = out.deployments
  /\ sent' = out.requests
  /\ ret' = [op |-> op, args |-> args, resp |-> resp, threw |-> out.threw,
             isNull |-> out.isNull, value |-> out.value, error |-> out.error]
  /\ UNCHANGED <<dryRun, wait, engineVars>>

\* uuids a caller may pass: of applications, and the dry-run placeholder
CallerUuids == {"a1", "n1", "dry-run-uuid"}
\* deployment uuids a caller may pass
CallerDeploymentUuids == {"d-a1", "dry-run-deployment-uuid"}

CallListApplications ==
  \E resp \in Responses :
    /\ Return("listApplications", <<>>, resp, listApplications(resp))
    /\ UNCHANGED calls

CallFindEnvironmentByName ==
  \E name \in EnvironmentNames, resp \in Responses :
    /\ Return("findEnvironmentByName", [name |-> name], resp,
              findEnvironmentByName("project-1", name, resp))
    /\ UNCHANGED calls

CallFindApplicationByName ==
  \E name \in Names, environmentId \in EnvIds \cup {UndefinedId}, resp \in Responses :
    /\ Return("findApplicationByName", [name |-> name, environmentId |-> environmentId],
              resp, findApplicationByName(name, environmentId, resp))
    /\ UNCHANGED calls

CallListEnvironmentVariables ==
  \E uuid \in CallerUuids :
    \E resp \in ResponsesFor(apps, uuid) :
      /\ Return("listEnvironmentVariables", [uuid |-> uuid], resp,
                listEnvironmentVariables(uuid, resp))
      /\ UNCHANGED calls

\* the responses the platform can give to a request about a deployment
DeploymentResponsesFor(ds, uuid) ==
  IF HasDeployment(ds, uuid) THEN Responses
  ELSE ErrorResponses \cup {[status |-> 204, json |-> FALSE, message |-> FALSE]}

CallGetDeployment ==
  \E uuid \in CallerDeploymentUuids :
    \E resp \in DeploymentResponsesFor(deployments, uuid) :
      /\ Return("getDeployment", [uuid |-> uuid], resp, getDeployment(uuid, resp))
      /\ UNCHANGED calls

ReadNext ==
  \/ CallListApplications
  \/ CallFindEnvironmentByName
  \/ CallFindApplicationByName
  \/ CallListEnvironmentVariables
  \/ CallGetDeployment

ReadSpec == ClientInit /\ [][ReadNext]_vars

\* the variables a caller may declare for an application
DeclaredEnvVars == {[key |-> "A", value |-> "1"], [key |-> "B", value |-> "2"]}

\* one more call of the caller's budget
Budget ==
  /\ calls < MaxCalls
  /\ calls' = calls + 1

CallCreateDockerImageApplication ==
  \E resource \in Resources, resp \in Responses :
    /\ Budget
    /\ FreshUuids(apps) # {}
    /\ Return("createDockerImageApplication", [name |-> resource.name], resp,
              createDockerImageApplication(
                buildCreateOptions(resource, "project-1", "server-1", "production",
                                   "env-prod", "dest-1", "v2"), resp))

CallUpdateApplication ==
  \E uuid \in CallerUuids, resource \in Resources :
    \E resp \in ResponsesFor(apps, uuid) :
      /\ Budget
      /\ Return("updateApplication", [uuid |-> uuid], resp,
                updateApplication(uuid, buildUpdateOptions(resource, "v2"), resp))

CallUpdateEnvironmentVariables ==
  \E uuid \in CallerUuids :
    \E resp \in ResponsesFor(apps, uuid) :
      /\ Budget
      /\ Return("updateEnvironmentVariables", [uuid |-> uuid], resp,
                updateEnvironmentVariables(uuid, DeclaredEnvVars, resp))

CallDeleteEnvironmentVariable ==
  \E uuid \in CallerUuids, envUuid \in EnvVarUuids :
    \E resp \in ResponsesFor(apps, uuid) :
      /\ Budget
      /\ Return("deleteEnvironmentVariable", [uuid |-> uuid, envUuid |-> envUuid], resp,
                deleteEnvironmentVariable(uuid, envUuid, resp))

CallDeleteApplication ==
  \E uuid \in CallerUuids :
    \E resp \in ResponsesFor(apps, uuid) :
      /\ Budget
      /\ Return("deleteApplication", [uuid |-> uuid], resp, deleteApplication(uuid, resp))

CallDeployApplication ==
  \E uuid \in CallerUuids :
    \E resp \in ResponsesFor(apps, uuid) :
      /\ Budget
      /\ Return("deployApplication", [uuid |-> uuid], resp, deployApplication(uuid, resp))

WriteNext ==
  \/ CallCreateDockerImageApplication
  \/ CallUpdateApplication
  \/ CallUpdateEnvironmentVariables
  \/ CallDeleteEnvironmentVariable
  \/ CallDeleteApplication
  \/ CallDeployApplication

WriteSpec == ClientInit /\ [][WriteNext]_vars

\* every method of the client: a caller that reads, then makes its mutating
\* calls
ClientNext ==
  \/ calls = 0 /\ ReadNext
  \/ WriteNext
ClientSpec == ClientInit /\ [][ClientNext]_vars

(***************************************************************************)
(* WaitSpec: one call of waitForDeployment while the platform works on the *)
(* deployment.                                                             *)
(***************************************************************************)
WaitInit ==
  /\ dryRun \in BOOLEAN
  /\ apps \in {s \in InitialListings : Len(s) = 1 /\ s[1].uuid = "a1"}
  /\ deployments \in {[u \in AppUuids |-> IF u = "a1" THEN st ELSE "none"] :
                         st \in DeploymentStatuses}
  /\ sent = {}
  /\ ret = NoCall
  /\ calls = 0
  /\ \E timeoutMs \in 0..MaxTimeout, intervalMs \in 1..MaxInterval :
       wait = <<NewWait("d-a1", timeoutMs, intervalMs)>>
  /\ EngineIdle

StartWait(t) ==
  /\ wait[t].pc = "idle"
  /\ wait' = [wait EXCEPT ![t] = startWait(wait[t])]
  /\ UNCHANGED <<dryRun, apps, deployments, sent, ret, calls, engineVars>>

\* one loop iteration; the poll takes one of the given latencies
PollWithin(t, latencies) ==
  /\ wait[t].pc = "loop"
  /\ WithinTimeout(wait[t])
  /\ \E resp \in DeploymentResponsesFor(deployments, wait[t].uuid), latency \in latencies :
       /\ wait' = [wait EXCEPT ![t] = poll(wait[t], resp, latency)]
       /\ sent' = sent \cup getDeployment(wait[t].uuid, resp).requests
  /\ UNCHANGED <<dryRun, apps, deployments, ret, calls, engineVars>>

Poll(t) == PollWithin(t, 0..MaxLatency)

TimeOut(t) ==
  /\ wait[t].pc = "loop"
  /\ ~WithinTimeout(wait[t])
  /\ wait' = [wait EXCEPT ![t] = timeOut(wait[t])]
  /\ UNCHANGED <<dryRun, apps, deployments, sent, ret, calls, engineVars>>

\* the sleep between two polls; the timer is late by one of the given delays
SleepWithin(t, delays) ==
  /\ wait[t].pc = "sleep"
  /\ \E late \in delays :
       wait' = [wait EXCEPT ![t] = sleep(wait[t], late)]
  /\ UNCHANGED <<dryRun, apps, deployments, sent, ret, calls, engineVars>>

Sleep(t) == SleepWithin(t, 0..MaxLatency)

\* the platform registers a deployment that was requested
PlatformRegister(u) ==
  /\ deployments[u] = "none"
  /\ deployments' = [deployments EXCEPT ![u] = "queued"]
  /\ UNCHANGED <<dryRun, apps, sent, ret, calls, wait, engineVars>>

\* the platform works on a deployment
PlatformProgress(u) ==
  /\ \/ /\ deployments[u] = "queued"
        /\ deployments' = [deployments EXCEPT ![u] = "in_progress"]
     \/ /\ deployments[u] = "in_progress"
        /\ \E st \in {"finished", "failed"} :
             deployments' = [deployments EXCEPT ![u] = st]
  /\ UNCHANGED <<dryRun, apps, sent, ret, calls, wait, engineVars>>

WaitStep(t) == StartWait(t) \/ Poll(t) \/ TimeOut(t) \/ Sleep(t)

WaitNext ==
  \/ StartWait(1)
  \/ Poll(1)
  \/ TimeOut(1)
  \/ Sleep(1)
  \/ PlatformRegister("a1")
  \/ PlatformProgress("a1")

\* the event loop resumes a call whose response or timer is due
WaitSpec == WaitInit /\ [][WaitNext]_vars /\ WF_vars(WaitStep(1))

(***************************************************************************)
(* Reconciler.reconcile: the reconciliation engine, one step per Directory *)
(* call.  The engine knows nothing of dry-run mode: it calls the client,   *)
(* and the client simulates.                                               *)
(***************************************************************************)
DockerTag == "v2"
ProjectId == "project-1"
\* ReconcilerOptions.serverUuid, and the destination of the applications
ServerUuid == "server-1"
DestinationUuid == "dest-1"

ApiResource == CHOOSE r \in Resources : r.name = "api"
WebResource == CHOOSE r \in Resources : r.name = "web"

\* the manifests a run is given
Manifests ==
  { [environmentName |-> "production", resources |-> <<ApiResource>>],
    [environmentName |-> "production", resources |-> <<ApiResource, WebResource>>],
    [environmentName |-> "missing", resources |-> <<ApiResource>>] }

\* the COOLIFY_ENV_* secrets a run is given; each parses to DeclaredEnvVars
\* process.env: each variable of the process is set, possibly to ""
ProcessEnvNames == {"COOLIFY_ENV_API", "COOLIFY_TOKEN"}
ProcessEnvs == [ProcessEnvNames -> {"", "A=1 B=2"}]
\* key.startsWith("COOLIFY_ENV_")
StartsWithCoolifyEnv(key) == key \in {"COOLIFY_ENV_API"}
\* the secrets handed to the engine: the COOLIFY_ENV_* variables with a
\* non-empty value
CollectEnvSecrets(env) ==
  {key \in DOMAIN env : StartsWithCoolifyEnv(key) /\ env[key] # ""}
SecretSets == {CollectEnvSecrets(env) : env \in ProcessEnvs}

\* an application named like a declared resource, left in production by hand
LegacyWeb == [uuid |-> "a5", name |-> "web", environment_id |-> 1, tag |-> "v1",
              envs |-> {}]
PoolApp(uuid) == CHOOSE a \in AppPool : a.uuid = uuid

\* the remote state a run starts from
RunListings ==
  {s \in InitialListings :
     \/ s = <<>>
     \/ Len(s) = 1 /\ s[1].uuid = "a2"
     \/ Len(s) = 2 /\ s[1].uuid = "a1" /\ s[2].uuid = "a3"}
  \cup {<<PoolApp("a3"), LegacyWeb, PoolApp("a4")>>}

\* the responses the platform gives a run: a JSON 2xx or a failure
RunResponses == {[status |-> 200, json |-> TRUE, message |-> FALSE], [status |-> 500, json |-> FALSE, message |-> FALSE]}
RunResponsesFor(as, uuid) == ResponsesFor(as, uuid) \cap RunResponses

\* the timeout and interval the engine's waits run with (the defaults)
RunTimeoutMs == 2
RunIntervalMs == 1

Declared == 1..Len(manifest.resources)
DeclaredNames == {manifest.resources[i].name : i \in Declared}

NewResource == [pc |-> "locate", uuid |-> Null, action |-> "none", stale |-> {},
                deploymentUuid |-> Null]

\* ReconcileResourceResult
Result(name, action, deploymentUuid, error) ==
  [name |-> name, action |-> action, deploymentUuid |-> deploymentUuid, error |-> error]

RunInit ==
  /\ dryRun \in BOOLEAN
  /\ apps \in RunListings
  /\ deployments = [u \in AppUuids |-> "none"]
  /\ sent = {}
  /\ ret = NoCall
  /\ calls = 0
  /\ manifest \in Manifests
  /\ envSecrets \in SecretSets
  /\ run = [phase |-> "resolve", environment |-> NullEnvironment, toPrune |-> <<>>,
            anomaly |-> FALSE, round |-> 1,
            exitCode |-> NoExit]
  /\ res = [i \in Declared |-> NewResource]
  /\ wait = [i \in Declared |-> NewWait(Null, RunTimeoutMs, RunIntervalMs)]
  /\ results = <<>>

\* a call failed although the platform could have answered it with a 2xx
Anomaly(out, possible) == out.threw /\ \E r \in possible : Ok(r)

\* the platform and the fetch log after a client call of the engine
Effect(out, possible) ==
  /\ apps' = out.apps
  /\ deployments' = out.deployments
  /\ sent' = sent \cup out.requests
  /\ run' = [run EXCEPT !.anomaly = @ \/ Anomaly(out, possible)]
  /\ UNCHANGED <<dryRun, ret, calls, manifest, envSecrets>>

\* a failure that is reported while the task goes on
Fail_taskGoesOn(i, error) ==
  /\ res' = res
  /\ results' = Append(results, Result(manifest.resources[i].name, "failed",
                                       res[i].deploymentUuid, error))

\* the resource's processing ends with a failed result
Fail(i, error) ==
  /\ res' = [res EXCEPT ![i].pc = "done"]
  /\ results' = Append(results, Result(manifest.resources[i].name, "failed",
                                       res[i].deploymentUuid, error))

\* a client call of resource i's task: a throw fails the resource, a return
\* moves the task on
Step(i, out, possible, next) ==
  /\ Effect(out, possible)
  /\ IF out.threw
     THEN Fail(i, "api error")
     ELSE /\ res' = [res EXCEPT ![i] = next]
          /\ UNCHANGED results

\* 1. resolve the environment, once per run; not found (or a failed lookup) is fatal
ResolveEnvironment ==
  /\ run.phase = "resolve"
  /\ \E resp \in RunResponses :
       LET out == findEnvironmentByName(ProjectId, manifest.environmentName, resp)
       IN /\ apps' = out.apps
          /\ deployments' = out.deployments
          /\ sent' = sent \cup out.requests
          /\ run' = IF out.threw \/ out.isNull
                    THEN [run EXCEPT !.phase = "fatal", !.anomaly = out.threw]
                    ELSE [run EXCEPT !.phase = "resources", !.environment = out.value]
  /\ UNCHANGED <<dryRun, ret, calls, manifest, envSecrets, wait, res, results>>

\* 2. locate the resource's application in the resolved environment
Locate(i) ==
  /\ run.phase = "resources"
  /\ res[i].pc = "locate"
  /\ \E resp \in RunResponses :
       LET out == findApplicationByName(manifest.resources[i].name,
                                        run.environment.id, resp)
       IN Step(i, out, RunResponses,
               IF out.isNull
               THEN [res[i] EXCEPT !.pc = "create"]
               ELSE [res[i] EXCEPT !.pc = "update", !.uuid = out.value.uuid])
  /\ UNCHANGED wait

\* a sync attempted for every resource, secret or not
SyncApplies_always(resource) == TRUE

\* 4. applies only with an envSecretName whose secret was supplied
SyncApplies(resource) ==
  resource.envSecretName # Undefined /\ resource.envSecretName \in envSecrets

AfterApply(i) == IF SyncApplies(manifest.resources[i]) THEN "envlist" ELSE "ready"

\* 3. not found: create
Create(i) ==
  /\ run.phase = "resources"
  /\ res[i].pc = "create"
  /\ FreshUuids(apps) # {}
  /\ \E resp \in RunResponses :
       LET out == createDockerImageApplication(
                    buildCreateOptions(manifest.resources[i], ProjectId, ServerUuid,
                                       run.environment.name, run.environment.uuid,
                                       DestinationUuid, DockerTag), resp)
       IN Step(i, out, RunResponses,
               [res[i] EXCEPT !.pc = AfterApply(i), !.uuid = out.value.uuid,
                              !.action = "created"])
  /\ UNCHANGED wait

\* 3. found: update
Update(i) ==
  /\ run.phase = "resources"
  /\ res[i].pc = "update"
  /\ \E resp \in RunResponsesFor(apps, res[i].uuid) :
       LET out == updateApplication(res[i].uuid,
                                    buildUpdateOptions(manifest.resources[i], DockerTag),
                                    resp)
       IN Step(i, out, RunResponsesFor(apps, res[i].uuid),
               [res[i] EXCEPT !.pc = AfterApply(i), !.action = "updated"])
  /\ UNCHANGED wait

DeclaredKeys == {v.key : v \in DeclaredEnvVars}

\* 4. list the remote variables; those whose key is not declared are stale
EnvList(i) ==
  /\ run.phase = "resources"
  /\ res[i].pc = "envlist"
  /\ \E resp \in RunResponsesFor(apps, res[i].uuid) :
       LET out == listEnvironmentVariables(res[i].uuid, resp)
       IN Step(i, out, RunResponsesFor(apps, res[i].uuid),
               [res[i] EXCEPT !.pc = "envupsert",
                              !.stale = {e.uuid : e \in {x \in out.value :
                                                           x.key \notin DeclaredKeys}}])
  /\ UNCHANGED wait

\* 4. one bulk write of the declared variables
EnvUpsert(i) ==
  /\ run.phase = "resources"
  /\ res[i].pc = "envupsert"
  /\ \E resp \in RunResponsesFor(apps, res[i].uuid) :
       LET out == updateEnvironmentVariables(res[i].uuid, DeclaredEnvVars, resp)
       IN Step(i, out, RunResponsesFor(apps, res[i].uuid),
               [res[i] EXCEPT !.pc = IF res[i].stale = {} THEN "ready" ELSE "envdelete"])
  /\ UNCHANGED wait

\* 4. the stale variables are deleted one by one
EnvDelete(i) ==
  /\ run.phase = "resources"
  /\ res[i].pc = "envdelete"
  /\ \E resp \in RunResponsesFor(apps, res[i].uuid) :
       LET envUuid == CHOOSE e \in res[i].stale : TRUE
           left == res[i].stale \ {envUuid}
           out == deleteEnvironmentVariable(res[i].uuid, envUuid, resp)
       IN Step(i, out, RunResponsesFor(apps, res[i].uuid),
               [res[i] EXCEPT !.stale = left,
                              !.pc = IF left = {} THEN "ready" ELSE "envdelete"])
  /\ UNCHANGED wait

PreTrigger == {"locate", "create", "update", "envlist", "envupsert", "envdelete"}

\* every resource is trigger-ready or has failed
AllPrepared == \A j \in Declared : res[j].pc \notin PreTrigger

\* a wait that may start as soon as its own trigger has returned
AllTriggered_ownTrigger == TRUE

\* the trigger of every trigger-ready resource has been issued
AllTriggered == AllPrepared /\ \A j \in Declared : res[j].pc # "ready"

AllCollected == \A j \in Declared : res[j].pc = "done"

\* 5. trigger the deploy of a trigger-ready resource; the triggers of the
\* resources are issued in any order
Trigger(i) ==
  /\ run.phase = "resources"
  /\ AllPrepared
  /\ res[i].pc = "ready"
  /\ \E resp \in RunResponsesFor(apps, res[i].uuid) \cup {r \in RunResponses : dryRun} :
       LET out == deployApplication(res[i].uuid, resp)
       IN /\ Step(i, out, RunResponsesFor(apps, res[i].uuid),
                  [res[i] EXCEPT !.pc = "triggered", !.deploymentUuid = out.value])
          /\ wait' = IF out.threw THEN wait
                     ELSE [wait EXCEPT ![i] = NewWait(out.value, RunTimeoutMs,
                                                      RunIntervalMs)]

\* 6. the wait of a triggered resource, once all triggers have been issued; in a
\* run responses and timers are on time
WaitTask(i) ==
  /\ run.phase = "resources"
  /\ AllTriggered
  /\ res[i].pc = "triggered"
  /\ \/ StartWait(i)
     \/ PollWithin(i, {0})
     \/ TimeOut(i)
     \/ SleepWithin(i, {0})

\* the error of a wait that did not return
WaitError(outcome) ==
  CASE outcome = "failed" -> "deployment failed"
    [] outcome = "timeout" -> "deployment timed out"
    [] OTHER -> "api error"

\* 6. the outcome of a resource's wait becomes its result
Collect(i) ==
  /\ run.phase = "resources"
  /\ res[i].pc = "triggered"
  /\ wait[i].pc = "done"
  /\ res' = [res EXCEPT ![i].pc = "done"]
  /\ results' = Append(results,
       IF wait[i].outcome = "finished"
       THEN Result(manifest.resources[i].name, res[i].action, res[i].deploymentUuid, "")
       ELSE Result(manifest.resources[i].name, "failed", res[i].deploymentUuid,
                   WaitError(wait[i].outcome)))
  /\ UNCHANGED <<dryRun, apps, deployments, sent, ret, calls, wait, manifest,
                 envSecrets, run>>

\* a selection for pruning that takes every application of the environment
Undeclared_everyApplication(listing) ==
  SelectSeq(listing, LAMBDA a : a.environment_id = run.environment.id)

\* a selection for pruning that goes by the name alone
Undeclared_anyEnvironment(listing) ==
  SelectSeq(listing, LAMBDA a : a.name \notin DeclaredNames)

\* 7. the listed applications of the resolved environment whose name is not declared
Undeclared(listing) ==
  SelectSeq(listing, LAMBDA a : /\ a.environment_id = run.environment.id
                                /\ a.name \notin DeclaredNames)

\* 7. list the applications and select those to prune
PruneList ==
  /\ run.phase = "resources"
  /\ AllCollected
  /\ LET out == listApplications([status |-> 200, json |-> TRUE, message |-> FALSE])
         undeclared == Undeclared(out.value)
     IN /\ apps' = out.apps
        /\ deployments' = out.deployments
        /\ sent' = sent \cup out.requests
        /\ run' = [run EXCEPT !.phase = "prune",
                              !.toPrune = [k \in 1..Len(undeclared) |->
                                             [uuid |-> undeclared[k].uuid,
                                              name |-> undeclared[k].name]]]
  /\ UNCHANGED <<dryRun, ret, calls, manifest, envSecrets, wait, res, results>>

\* a prune that gives up at the first deletion that fails
RestToPrune_stopOnFailure(todo, threw) == IF threw THEN <<>> ELSE Tail(todo)

\* 7. what is left to prune after a deletion, whether it failed or not
RestToPrune(todo, threw) == Tail(todo)

\* 7. delete one undeclared application; a failed deletion fails that entry only
PruneDelete ==
  /\ run.phase = "prune"
  /\ run.toPrune # <<>>
  /\ LET target == Head(run.toPrune)
     IN \E resp \in RunResponsesFor(apps, target.uuid) :
          LET out == deleteApplication(target.uuid, resp)
          IN /\ apps' = out.apps
             /\ deployments' = out.deployments
             /\ sent' = sent \cup out.requests
             /\ run' = [run EXCEPT !.toPrune = RestToPrune(@, out.threw),
                                   !.anomaly = @ \/ out.threw]
             /\ results' = Append(results,
                  IF out.threw THEN Result(target.name, "failed", Null, "api error")
                  ELSE Result(target.name, "pruned", Null, ""))
  /\ UNCHANGED <<dryRun, ret, calls, manifest, envSecrets, wait, res>>

\* 8. the run returns its result
Aggregate ==
  /\ run.phase = "prune"
  /\ run.toPrune = <<>>
  /\ run' = [run EXCEPT !.phase = "done"]
  /\ UNCHANGED <<dryRun, apps, deployments, sent, ret, calls, wait, manifest,
                 envSecrets, res, results>>

\* an apply command whose catch block ends the process with code 0
ExitCode_swallowThrown(threw, success) == IF threw THEN 0 ELSE IF ~success THEN 1 ELSE 0

\* the code the apply command ends the process with: 1 from the catch block
\* when reconcile() threw, 1 when the result is not a success, 0 otherwise
ExitCode(threw, success) == IF threw THEN 1 ELSE IF ~success THEN 1 ELSE 0

\* a count that looks at the declared resources' entries only
Count_declaredOnly(action) ==
  Cardinality({k \in 1..Len(results) : /\ results[k].action = action
                                       /\ results[k].name \in DeclaredNames})

Count(action) == Cardinality({k \in 1..Len(results) : results[k].action = action})

\* ReconcileResult
ReconcileResult ==
  [success |-> run.phase = "done" /\ Count("failed") = 0,
   totalCreated |-> Count("created"),
   totalUpdated |-> Count("updated"),
   totalPruned |-> Count("pruned"),
   totalFailed |-> Count("failed"),
   resources |-> results]

\* the apply command, after reconcile() returned or threw: process.exit
Exit ==
  /\ run.phase \in {"done", "fatal"}
  /\ run.exitCode = NoExit
  /\ run' = [run EXCEPT !.exitCode = ExitCode(run.phase = "fatal",
                                              ReconcileResult.success)]
  /\ UNCHANGED <<dryRun, apps, deployments, sent, ret, calls, wait, manifest,
                 envSecrets, res, results>>

RunNext ==
  \/ ResolveEnvironment
  \/ \E i \in Declared : Locate(i)
  \/ \E i \in Declared : Create(i)
  \/ \E i \in Declared : Update(i)
  \/ \E i \in Declared : EnvList(i)
  \/ \E i \in Declared : EnvUpsert(i)
  \/ \E i \in Declared : EnvDelete(i)
  \/ \E i \in Declared : Trigger(i)
  \/ \E i \in Declared : WaitTask(i)
  \/ \E i \in Declared : Collect(i)
  \/ \E u \in AppUuids : PlatformProgress(u)
  \/ PruneList
  \/ PruneDelete
  \/ Aggregate
  \/ Exit

RunSpec == RunInit /\ [][RunNext]_vars

\* the caller runs the engine again, with the same manifest, secrets and tag,
\* on the remote state a successful live run left
Rerun ==
  /\ ~dryRun
  /\ run.phase = "done"
  /\ run.round = 1
  /\ ReconcileResult.success
  /\ run' = [phase |-> "resolve", environment |-> NullEnvironment, toPrune |-> <<>>,
             anomaly |-> FALSE, round |-> 2,
            exitCode |-> NoExit]
  /\ res' = [i \in Declared |-> NewResource]
  /\ wait' = [i \in Declared |-> NewWait(Null, RunTimeoutMs, RunIntervalMs)]
  /\ results' = <<>>
  /\ sent' = {}
  /\ UNCHANGED <<dryRun, apps, deployments, ret, calls, manifest, envSecrets>>

TwiceNext == RunNext \/ Rerun

\* TwiceSpec: a run, and after a successful live run a second one
TwiceSpec == RunInit /\ [][TwiceNext]_vars

\* ---- the environment-variable sync, over every remote variable set ----

\* a remote variable holds the declared value of its key or another one
RemoteValues ==
  [k \in EnvKeys |-> CASE k = "A" -> {"1", "9"} [] k = "B" -> {"2", "old"}
                        [] OTHER -> {"3"}]
RemoteVars ==
  UNION {{[uuid |-> EnvVarUuid[k], key |-> k, value |-> v] : v \in RemoteValues[k]} :
           k \in EnvKeys}
\* the variable sets an application may hold: keys are unique
RemoteSets == {R \in SUBSET RemoteVars : \A x, y \in R : x.key = y.key => x = y}

WithEnvs(app, R) == [app EXCEPT !.envs = R]

\* the application of "api" with any remote variable set, next to an
\* application to prune; or no application of "api" at all
SyncListings ==
  {<<WithEnvs(PoolApp("a1"), R), PoolApp("a3")>> : R \in RemoteSets}
  \cup {<<PoolApp("a3")>>}

SyncInit ==
  /\ dryRun \in BOOLEAN
  /\ apps \in SyncListings
  /\ deployments = [u \in AppUuids |-> "none"]
  /\ sent = {}
  /\ ret = NoCall
  /\ calls = 0
  /\ manifest = [environmentName |-> "production", resources |-> <<ApiResource>>]
  /\ envSecrets = {"COOLIFY_ENV_API"}
  /\ run = [phase |-> "resolve", environment |-> NullEnvironment, toPrune |-> <<>>,
            anomaly |-> FALSE, round |-> 1,
            exitCode |-> NoExit]
  /\ res = [i \in Declared |-> NewResource]
  /\ wait = [i \in Declared |-> NewWait(Null, RunTimeoutMs, RunIntervalMs)]
  /\ results = <<>>

SyncSpec == SyncInit /\ [][RunNext]_vars

\* ---- the payloads of create and update, over every shape of resource ----

\* healthCheck: {}
EmptyHealthCheck == [NoHealthCheck EXCEPT !.declared = TRUE]
\* a healthCheck with every sub-field declared
FullHealthCheck ==
  [declared |-> TRUE, path |-> "/health", port |-> "3000", host |-> "localhost",
   method |-> "GET", returnCode |-> "200", scheme |-> "http", responseText |-> "ok",
   interval |-> "5", timeout |-> "5", retries |-> "10", startPeriod |-> "5"]

\* the resource "api" with domains and portsExposes absent, empty or set, and
\* with no, an empty, a partial or a full healthCheck
PayloadResources ==
  { [name |-> "api", description |-> "the api", dockerImageName |-> "ghcr.io/o/api",
     envSecretName |-> "COOLIFY_ENV_API", domains |-> domains,
     portsExposes |-> portsExposes, healthCheck |-> healthCheck] :
      domains \in {Undefined, "", "api.example.com"},
      portsExposes \in {Undefined, "", "3000"},
      healthCheck \in {NoHealthCheck, EmptyHealthCheck, PathAndPort, FullHealthCheck} }

PayloadInit ==
  /\ dryRun \in BOOLEAN
  /\ apps = <<PoolApp("a1")>>
  /\ deployments = [u \in AppUuids |-> "none"]
  /\ sent = {}
  /\ ret = NoCall
  /\ calls = 0
  /\ wait = <<>>
  /\ EngineIdle

\* the caller builds the create payload of a resource and posts it; the body
\* is what request() passes to fetch()
CreateFrom ==
  \E resource \in PayloadResources, resp \in Responses :
    LET options == buildCreateOptions(resource, "project-1", "server-1", "production",
                                      "env-prod", "dest-1", DockerTag)
    IN /\ Budget
       /\ FreshUuids(apps) # {}
       /\ Return("createDockerImageApplication",
                 [resource |-> resource, body |-> JsonBody(options)], resp,
                 createDockerImageApplication(options, resp))

\* the caller builds the update payload of a resource and patches the
\* application with it
UpdateFrom ==
  \E resource \in PayloadResources, resp \in Responses :
    LET options == buildUpdateOptions(resource, DockerTag)
    IN /\ Budget
       /\ Return("updateApplication",
                 [resource |-> resource, body |-> JsonBody(options)], resp,
                 updateApplication("a1", options, resp))

PayloadNext ==
  \/ CreateFrom
  \/ UpdateFrom
  \/ CallDeployApplication

PayloadSpec == PayloadInit /\ [][PayloadNext]_vars

TypeOK == calls \in 0..MaxCalls

(***************************************************************************)
(* Properties of the client                                                *)
(***************************************************************************)
\* the applications of a listing with the given name and environment
Matching(as, name, environmentId) ==
  {i \in 1..Len(as) : as[i].name = name /\ as[i].environment_id = environmentId}

\* C1: findApplicationByName(name, environmentId) returns an application only
\* if its name is name and its environment_id is environmentId; when the listing
\* holds no application of that name in that environment it returns null.
C1_EnvironmentScoping ==
  (ret.op = "findApplicationByName" /\ ~ret.threw) =>
    /\ ~ret.isNull => /\ ret.value.name = ret.args.name
                      /\ ret.value.environment_id = ret.args.environmentId
                      /\ \E i \in 1..Len(apps) : apps[i] = ret.value
    /\ Matching(apps, ret.args.name, ret.args.environmentId) = {} => ret.isNull

\* a find that returned null although another environment has an application of that name
C1_Witness ==
  /\ ret.op = "findApplicationByName"
  /\ ~ret.threw /\ ret.isNull /\ ret.resp.json
  /\ ret.args.environmentId \in EnvIds
  /\ \E i \in 1..Len(apps) :
       apps[i].name = ret.args.name /\ apps[i].environment_id # ret.args.environmentId

MutatingOps ==
  {"createDockerImageApplication", "updateApplication", "updateEnvironmentVariables",
   "deleteEnvironmentVariable", "deleteApplication", "deployApplication"}

\* C2: in dry-run mode no call of a mutating method sends a request or changes the
\* remote applications, their environment variables or the deployments, and each
\* call returns a synthetic success value (placeholder uuids for create and deploy).
C2_DryRunNoMutation ==
  [][dryRun =>
       /\ ret'.op \in MutatingOps
       /\ sent' = {}
       /\ apps' = apps
       /\ deployments' = deployments
       /\ ~ret'.threw
       /\ ret'.op = "createDockerImageApplication" => ret'.value.uuid = "dry-run-uuid"
       /\ ret'.op = "deployApplication" => ret'.value = "dry-run-deployment-uuid"]_vars

\* a dry-run caller has used its whole budget, the last call a deletion of an
\* application that exists
C2_Witness ==
  /\ dryRun
  /\ calls = MaxCalls
  /\ ret.op = "deleteApplication"
  /\ HasApp(apps, ret.args.uuid)

ReadOps ==
  {"listApplications", "findEnvironmentByName", "findApplicationByName",
   "listEnvironmentVariables", "getDeployment"}

\* the first element of a listing that satisfies a test, as Array.find
FirstIndex(hits) == CHOOSE i \in hits : \A j \in hits : i <= j

\* the value a read method returns when it reports what the platform holds
Reported(r) ==
  CASE r.op = "listApplications" ->
         r.value = (IF r.resp.json THEN apps ELSE <<>>)
    [] r.op = "findEnvironmentByName" ->
         LET hits == {i \in 1..Len(Environments) : Environments[i].name = r.args.name}
         IN IF r.resp.json /\ hits # {}
            THEN r.value = Environments[FirstIndex(hits)]
            ELSE r.isNull
    [] r.op = "findApplicationByName" ->
         LET hits == Matching(apps, r.args.name, r.args.environmentId)
         IN IF r.resp.json /\ hits # {}
            THEN r.value = apps[FirstIndex(hits)]
            ELSE r.isNull
    [] r.op = "listEnvironmentVariables" ->
         r.value = (IF r.resp.json THEN AppOf(apps, r.args.uuid).envs ELSE {})
    [] r.op = "getDeployment" ->
         IF r.resp.json
         THEN r.value = [status |-> deployments[DeployedApp(r.args.uuid)],
                         deployment_uuid |-> r.args.uuid]
         ELSE r.isNull
    [] OTHER -> TRUE

\* a read method has asked the platform and returned what it answered
ReadsPlatform(r) ==
  /\ sent # {}
  /\ r.threw = ~Ok(r.resp)
  /\ ~r.threw => Reported(r)

\* C4 as stated: in dry-run mode every read, getDeployment included, executes
\* against the platform and returns what the platform reports.
C4_DryRunReadsAreReal ==
  (dryRun /\ ret.op \in ReadOps) => ReadsPlatform(ret)

\* C4 amended: in dry-run mode every list/find read executes against the platform
\* and returns what it reports, as in a live run; getDeployment is the exception:
\* it sends nothing and returns a synthetic deployment of status "finished".
C4_DryRunListFindAreReal ==
  /\ (ret.op \in ReadOps \ {"getDeployment"}) => ReadsPlatform(ret)
  /\ (~dryRun /\ ret.op = "getDeployment") => ReadsPlatform(ret)
  /\ (dryRun /\ ret.op = "getDeployment") =>
       /\ sent = {}
       /\ ~ret.threw
       /\ ret.value = [status |-> "finished", deployment_uuid |-> ret.args.uuid]

\* a dry-run find that returned an application of the platform
C4_Witness ==
  /\ dryRun
  /\ ret.op = "findApplicationByName"
  /\ ~ret.threw /\ ~ret.isNull
  /\ sent # {}

(***************************************************************************)
(* Properties of waitForDeployment                                         *)
(***************************************************************************)
TerminalStatuses == {"finished", "failed"}
Started(t) == wait[t].pc # "idle"
Ended(t) == wait[t].pc = "done"

\* C5: the first terminal status a poll observes ends the wait and decides it:
\* "finished" makes it return that deployment, "failed" makes it throw the
\* deployment-failed error; a wait that ended after observing any other status
\* (or none) was ended by the timeout or a request error, not by that status;
\* two polls are at least intervalMs apart.
C5_WaitOutcome ==
  /\ [](\A t \in DOMAIN wait :
          /\ wait[t].lastSeen = "finished" =>
                /\ Ended(t) /\ wait[t].outcome = "finished"
                /\ wait[t].value = [status |-> "finished", deployment_uuid |-> wait[t].uuid]
          /\ wait[t].lastSeen = "failed" => Ended(t) /\ wait[t].outcome = "failed"
          /\ (Ended(t) /\ wait[t].polled /\ wait[t].lastSeen \notin TerminalStatuses) =>
                wait[t].outcome \in {"timeout", "error"})
  /\ [][\A t \in DOMAIN wait :
          (wait[t].pc = "sleep" /\ wait'[t].pc = "loop") =>
             wait'[t].elapsed >= wait[t].elapsed + wait[t].intervalMs]_vars

\* a wait that polled more than once and returned on "finished"
C5_Witness ==
  \E t \in DOMAIN wait :
    /\ Ended(t) /\ wait[t].polled /\ wait[t].outcome = "finished"
    /\ wait[t].intervalMs > MaxLatency
    /\ wait[t].elapsed >= wait[t].intervalMs

\* C6: a live wait ends whatever non-terminal statuses the platform returns; one
\* that observed no terminal status and met no request error ends with the timeout
\* error, after the timeout has elapsed; it reports success only after observing
\* status "finished".
C6_WaitIsBounded ==
  /\ [](\A t \in DOMAIN wait :
          ~dryRun =>
            /\ wait[t].outcome = "finished" => wait[t].lastSeen = "finished"
            /\ (Ended(t) /\ wait[t].lastSeen \notin TerminalStatuses
                   /\ wait[t].outcome # "error") =>
                  /\ wait[t].outcome = "timeout"
                  /\ wait[t].elapsed >= wait[t].timeoutMs)
  /\ <>(\A t \in DOMAIN wait : Ended(t))

\* a wait that polled, saw only non-terminal statuses and ended with the timeout error
C6_Witness ==
  \E t \in DOMAIN wait :
    /\ Ended(t) /\ wait[t].polled /\ wait[t].outcome = "timeout"
    /\ wait[t].lastSeen \in {"queued", "in_progress"}

(***************************************************************************)
(* Properties of a run of the engine                                       *)
(***************************************************************************)
HasResult(i) == \E k \in 1..Len(results) : results[k].name = manifest.resources[i].name
\* the result the run emitted for declared resource i
ResultOf(i) ==
  results[CHOOSE k \in 1..Len(results) : results[k].name = manifest.resources[i].name]

\* the classification of declared resource i that the remote state the run
\* started from calls for: the applications of ExistingUuids are those that
\* existed before the run
Predicted(i) ==
  IF \E k \in 1..Len(apps) : /\ apps[k].uuid \in ExistingUuids
                             /\ apps[k].name = manifest.resources[i].name
                             /\ apps[k].environment_id = run.environment.id
  THEN "updated" ELSE "created"

MutatingRequests == {q \in sent : q.method # "GET"}

\* a live run in which no call failed and every deployment was seen to finish
\* classifies each declared resource as the remote state calls for
LiveClassification ==
  (~dryRun /\ run.phase = "done" /\ ~run.anomaly
     /\ \A i \in Declared : wait[i].outcome = "finished") =>
    \A i \in Declared : HasResult(i) /\ ResultOf(i).action = Predicted(i)

\* C3: a dry run in which no call failed that the platform could have answered
\* reports each declared resource with the classification (created / updated) a
\* live run from the same remote state makes, reports the undeclared applications
\* of the environment as pruned, and sends no mutating request.
C3_DryRunParity ==
  (dryRun /\ run.phase = "done" /\ ~run.anomaly) =>
    /\ \A i \in Declared : HasResult(i) /\ ResultOf(i).action = Predicted(i)
    /\ \A k \in 1..Len(apps) :
         (apps[k].environment_id = run.environment.id /\ apps[k].name \notin DeclaredNames)
           => \E r \in 1..Len(results) :
                results[r].name = apps[k].name /\ results[r].action = "pruned"
    /\ MutatingRequests = {}

\* C7: when the wait of exactly one resource observes status "failed", every other
\* wait observes "finished" and nothing else fails, the failing resource is
\* reported failed with the deployment-failed error, every other resource is
\* reported with its own action, success is false and totalFailed is 1.
C7_DeploymentFailureIsolation ==
  \A i \in Declared :
    ( /\ run.phase = "done"
      /\ wait[i].lastSeen = "failed"
      /\ \A j \in Declared \ {i} : wait[j].lastSeen = "finished"
      /\ \A k \in 1..Len(results) :
           results[k].action = "failed" => results[k].name \in DeclaredNames ) =>
      /\ ResultOf(i).action = "failed"
      /\ ResultOf(i).error = "deployment failed"
      /\ \A j \in Declared \ {i} :
           /\ wait[j].pc = "done" /\ wait[j].outcome = "finished"
           /\ ResultOf(j).action = res[j].action
           /\ ResultOf(j).action \in {"created", "updated"}
      /\ ReconcileResult.success = FALSE
      /\ ReconcileResult.totalFailed = 1

\* a finished run of two resources, one deployment failed, the other finished
C7_Witness ==
  /\ run.phase = "done"
  /\ Len(manifest.resources) = 2
  /\ wait[1].lastSeen = "finished"
  /\ wait[2].lastSeen = "failed"
  /\ ReconcileResult.totalFailed = 1
  /\ ReconcileResult.totalCreated + ReconcileResult.totalUpdated = 1

Running(t) == wait[t].pc \in {"loop", "sleep"}
EndedBadly(t) == wait[t].pc = "done" /\ wait[t].outcome \in {"failed", "timeout"}

\* C8: a wait times out only when its own timeout has elapsed on its own clock;
\* the step that ends one wait leaves every sibling wait and sibling task as they
\* were; a sibling that is still polling after another wait failed or timed out
\* can take its next step; and a finished run reports a deployment failure or
\* timeout for exactly the resources whose own wait ended so.
C8_IndependentWaitTimeouts ==
  /\ [](\A i \in DOMAIN wait :
          /\ wait[i].outcome = "timeout" => wait[i].elapsed >= wait[i].timeoutMs
          /\ \A j \in DOMAIN wait \ {i} :
               (EndedBadly(i) /\ res[j].pc = "triggered" /\ Running(j)) =>
                 ENABLED WaitTask(j)
          /\ (run.phase = "done" /\ HasResult(i)) =>
               (ResultOf(i).error \in {"deployment failed", "deployment timed out"}
                  <=> EndedBadly(i)))
  /\ [][\A i \in DOMAIN wait :
          (wait[i].pc # "done" /\ wait'[i].pc = "done") =>
            \A j \in DOMAIN wait \ {i} : wait'[j] = wait[j] /\ res'[j] = res[j]]_vars

\* one wait has timed out while its sibling, started later, is still polling
C8_Witness ==
  \E i, j \in DOMAIN wait :
    /\ i # j
    /\ wait[i].pc = "done" /\ wait[i].outcome = "timeout"
    /\ res[j].pc = "triggered" /\ Running(j) /\ wait[j].polled
    /\ wait[j].elapsed < wait[i].elapsed

\* C9: the platform starts a deployment of an application only in the step that
\* triggers the deploy of the resource it belongs to, and then the create/update
\* has been applied (the application carries the run's tag) and, where env sync
\* applies, the application's variables are exactly the declared ones; env sync
\* starts only after create/update returned; a resource whose create/update or
\* env sync failed is never triggered.
C9_PerResourceOrdering ==
  [][/\ \A u \in AppUuids :
          (deployments[u] = "none" /\ deployments'[u] # "none") =>
            \E i \in Declared :
              /\ res[i].uuid = u
              /\ res[i].pc = "ready" /\ res'[i].pc = "triggered"
              /\ AppOf(apps, u).tag = DockerTag
              /\ SyncApplies(manifest.resources[i]) =>
                   {[key |-> e.key, value |-> e.value] : e \in AppOf(apps, u).envs}
                     = DeclaredEnvVars
     /\ \A i \in Declared :
          /\ (res[i].pc # "triggered" /\ res'[i].pc = "triggered") =>
               /\ res[i].pc = "ready"
               /\ res[i].action \in {"created", "updated"}
               /\ res[i].stale = {}
          /\ (res[i].pc # "envlist" /\ res'[i].pc = "envlist") =>
               /\ res[i].pc \in {"create", "update"}
               /\ res'[i].action \in {"created", "updated"}
          /\ (res[i].pc \in {"envupsert", "envdelete"}) =>
               res'[i].pc \in {"envupsert", "envdelete", "ready", "done"}
          /\ (res[i].pc = "done" /\ res[i].deploymentUuid = Null) =>
               /\ res'[i] = res[i]
               /\ wait'[i] = wait[i]]_vars

\* a live run triggered the deploy of a resource it created and synced: the
\* deployment is queued, the application has the tag and the declared variables
C9_Witness ==
  \E i \in Declared :
    /\ ~dryRun
    /\ res[i].pc = "triggered" /\ res[i].action = "created"
    /\ SyncApplies(manifest.resources[i])
    /\ deployments[res[i].uuid] = "queued"
    /\ {[key |-> e.key, value |-> e.value] : e \in AppOf(apps, res[i].uuid).envs}
         = DeclaredEnvVars

NoTriggerPending == \A j \in Declared : res[j].pc \in {"triggered", "done"}
StatusRequests == {q \in sent : q.path = "/api/v1/deployments/{uuid}"}

\* C10: a wait has started, or a deployment status has been requested, only when
\* no resource is still to be prepared or triggered; a trigger-ready resource can
\* be triggered whatever the other resources' triggers have done; and every
\* unfinished wait can take its next step once all triggers have been issued.
C10_FanOutOrdering ==
  /\ (StatusRequests # {} \/ \E i \in Declared : wait[i].pc # "idle") => NoTriggerPending
  /\ \A i \in Declared :
       /\ (run.phase = "resources" /\ res[i].pc = "ready"
             /\ \A j \in Declared : res[j].pc \notin PreTrigger) => ENABLED Trigger(i)
       /\ (NoTriggerPending /\ res[i].pc = "triggered" /\ wait[i].pc # "done") =>
            ENABLED WaitTask(i)

\* two waits are polling at the same time
C10_Witness ==
  /\ Len(manifest.resources) = 2
  /\ Running(1) /\ wait[1].polled
  /\ Running(2) /\ wait[2].polled

EnvironmentExists ==
  \E k \in 1..Len(Environments) : Environments[k].name = manifest.environmentName

\* the requests of the environment lookup
LookupRequests == {Request("GET", "/api/v1/projects/{id}/environments", ProjectId)}

\* no resource has been touched: no task has moved, no wait exists, no result
NothingProcessed ==
  /\ results = <<>>
  /\ \A i \in Declared : res[i] = NewResource /\ wait[i].pc = "idle"
  /\ sent \subseteq LookupRequests
  /\ \A u \in AppUuids : deployments[u] = "none"

\* C11: a run whose declared environment is not in the project never gets past
\* the environment lookup; a run that failed fatally has produced no result, has
\* processed no resource and has sent nothing but the environment lookup, and
\* it does not report success.
C11_StructuralFailure ==
  /\ ~EnvironmentExists => run.phase \in {"resolve", "fatal"}
  /\ run.phase = "fatal" => NothingProcessed /\ ~ReconcileResult.success

\* the lookup was answered, the environment is not in the project, the run is fatal
C11_Witness ==
  /\ run.phase = "fatal"
  /\ ~EnvironmentExists
  /\ ~run.anomaly
  /\ sent = LookupRequests

TerminalActions == {"created", "updated", "unchanged", "pruned", "failed"}
EntriesOf(name) == {k \in 1..Len(results) : results[k].name = name}
LastResult(rs) == rs[Len(rs)]

\* the pcs at which a task's next call changes the platform when it succeeds
MutatingPcs == {"create", "update", "envupsert", "envdelete", "ready"}

\* the steps of the engine itself
EngineNext ==
  \/ ResolveEnvironment
  \/ \E i \in Declared :
       \/ Locate(i) \/ Create(i) \/ Update(i) \/ EnvList(i) \/ EnvUpsert(i)
       \/ EnvDelete(i) \/ Trigger(i) \/ WaitTask(i) \/ Collect(i)
  \/ PruneList
  \/ PruneDelete
  \/ Aggregate

RECURSIVE Tally(_, _)
\* the number of entries of a result list with the given action
Tally(rs, action) ==
  IF rs = <<>> THEN 0
  ELSE (IF Head(rs).action = action THEN 1 ELSE 0) + Tally(Tail(rs), action)

C14_Idempotence ==
  /\ [](run.round = 2 =>
          /\ Count("created") = 0
          /\ Count("pruned") = 0
          /\ \A q \in sent : q.method \notin {"DELETE"}
                             /\ q.path # "/api/v1/applications/dockerimage"
          /\ ( /\ run.phase = "done"
               /\ ~run.anomaly
               /\ \A i \in Declared : wait[i].outcome = "finished" ) =>
               /\ ReconcileResult.success
               /\ ReconcileResult.totalCreated = 0
               /\ ReconcileResult.totalPruned = 0
               /\ ReconcileResult.totalFailed = 0
               /\ ReconcileResult.totalUpdated = Len(manifest.resources))
  /\ [][(run.round = 2 /\ run'.round = 2) => apps' = apps]_vars

\* a second run that returned success, after a first run that created and pruned
C14_Witness ==
  /\ run.round = 2
  /\ run.phase = "done"
  /\ ReconcileResult.success
  /\ ReconcileResult.totalUpdated = 2
  /\ \E k \in 1..Len(apps) : apps[k].uuid \notin ExistingUuids
  /\ \A k \in 1..Len(apps) : apps[k].name # "old"
  /\ Request("PATCH", "/api/v1/applications/{uuid}/envs/bulk", "a1") \in sent

\* the applications of the resolved environment that carry resource i's name
Homonyms(as, i) == Matching(as, manifest.resources[i].name, run.environment.id)

UpdateRequest(uuid) == Request("PATCH", "/api/v1/applications/{uuid}", uuid)

\* C15: a resource whose lookup returned goes to create when the resolved
\* environment holds no application of its name and to update, against that
\* application's uuid, when it holds one; a create that returned makes the result
\* tentatively created and its uuid the resource's identity, an update that
\* returned makes it tentatively updated; identity and tentative action never
\* change afterwards, so a resource is never both created and updated; and the
\* environment never holds two applications of a declared name.
C15_CreateOrUpdate ==
  /\ [](run.phase \in {"resources", "prune", "done"} =>
          \A i \in Declared :
            /\ Cardinality(Homonyms(apps, i)) <= 1
            /\ res[i].pc = "create" => Homonyms(apps, i) = {} /\ res[i].uuid = Null
            /\ res[i].pc = "update" =>
                 /\ Homonyms(apps, i) # {}
                 /\ \A k \in Homonyms(apps, i) : apps[k].uuid = res[i].uuid
            /\ res[i].action = "created" =>
                 /\ UpdateRequest(res[i].uuid) \notin sent
                 /\ res[i].uuid = IF dryRun THEN "dry-run-uuid"
                                  ELSE AppOf(apps, res[i].uuid).uuid
                 /\ ~dryRun => /\ res[i].uuid \notin ExistingUuids
                               /\ \A k \in Homonyms(apps, i) : apps[k].uuid = res[i].uuid
                               /\ Homonyms(apps, i) # {}
            /\ res[i].action = "updated" =>
                 /\ res[i].uuid \in ExistingUuids
                 /\ ~dryRun => UpdateRequest(res[i].uuid) \in sent)
  /\ [][\A i \in Declared :
          (run'.round = run.round) =>
            /\ res[i].uuid # Null => res'[i].uuid = res[i].uuid
            /\ res[i].action # "none" => res'[i].action = res[i].action
            /\ (res[i].action = "none" /\ res'[i].action = "created") =>
                  res[i].pc = "create"
            /\ (res[i].action = "none" /\ res'[i].action = "updated") =>
                  res[i].pc = "update"]_vars

\* a live run updated the application it found and created the one it did not find
C15_Witness ==
  /\ ~dryRun
  /\ Len(manifest.resources) = 2
  /\ res[1].action = "updated" /\ res[1].uuid = "a1"
  /\ res[2].action = "created" /\ res[2].uuid \notin ExistingUuids

Uuids(as) == {as[k].uuid : k \in 1..Len(as)}
DeleteRequest(uuid) == Request("DELETE", "/api/v1/applications/{uuid}", uuid)
InEnvironment(a) == a.environment_id = run.environment.id

\* C16: an application disappears from the platform only in a prune step, one
\* at a time, and then it is an application of the resolved environment whose
\* name is not declared, it had not been deleted before, and the step reports it
\* pruned; when the run returns, every undeclared application of the resolved
\* environment has exactly one entry, and those of a live run are gone unless
\* their entry is failed; no declared resource is reported pruned.
C16_PruningCorrectness ==
  /\ [][\A k \in 1..Len(apps) :
          (run'.round = run.round /\ apps[k].uuid \notin Uuids(apps')) =>
            /\ run.phase = "prune"
            /\ InEnvironment(apps[k])
            /\ apps[k].name \notin DeclaredNames
            /\ Uuids(apps') = Uuids(apps) \ {apps[k].uuid}
            /\ DeleteRequest(apps[k].uuid) \notin sent
            /\ DeleteRequest(apps[k].uuid) \in sent'
            /\ results' = Append(results, Result(apps[k].name, "pruned", Null, ""))]_vars
  /\ [](run.phase = "done" =>
          /\ \A k \in 1..Len(apps) :
               (InEnvironment(apps[k]) /\ apps[k].name \notin DeclaredNames) =>
                 /\ Cardinality(EntriesOf(apps[k].name)) = 1
                 /\ \A r \in EntriesOf(apps[k].name) :
                      results[r].action = IF dryRun THEN "pruned" ELSE "failed"
          /\ \A r \in 1..Len(results) :
               results[r].action = "pruned" =>
                 /\ results[r].name \notin DeclaredNames
                 /\ Cardinality(EntriesOf(results[r].name)) = 1
                 /\ ~dryRun => \A k \in 1..Len(apps) :
                                 InEnvironment(apps[k]) => apps[k].name # results[r].name)

\* a live run deleted both undeclared applications of production, and kept the
\* application of another environment
C16_Witness ==
  /\ ~dryRun
  /\ run.phase = "done"
  /\ ReconcileResult.totalPruned = 2
  /\ DeleteRequest("a3") \in sent /\ DeleteRequest("a5") \in sent
  /\ "a4" \in Uuids(apps)
  /\ "a3" \notin Uuids(apps) /\ "a5" \notin Uuids(apps)

ToPruneUuids == {run.toPrune[k].uuid : k \in 1..Len(run.toPrune)}

\* C17: while the run prunes, and when it has returned, every undeclared
\* application still present in the resolved environment is either still to be
\* deleted or has its own entry, failed in a live run; a deletion that fails
\* adds a failed entry for that application only and leaves the rest of the
\* applications to prune as they were, and the next deletion can be issued.
C17_PruneFailureIsolation ==
  /\ [](run.phase \in {"prune", "done"} =>
          /\ \A k \in 1..Len(apps) :
               (InEnvironment(apps[k]) /\ apps[k].name \notin DeclaredNames) =>
                 \/ apps[k].uuid \in ToPruneUuids
                 \/ /\ Cardinality(EntriesOf(apps[k].name)) = 1
                    /\ \A r \in EntriesOf(apps[k].name) :
                         results[r].action = IF dryRun THEN "pruned" ELSE "failed"
          /\ (run.phase = "prune" /\ run.toPrune # <<>>) => ENABLED PruneDelete
          /\ run.phase = "done" => run.toPrune = <<>>)
  /\ [][( /\ run.phase = "prune"
          /\ run.toPrune # <<>>
          /\ results' # results
          /\ LastResult(results').action = "failed" ) =>
          /\ LastResult(results').name = Head(run.toPrune).name
          /\ Len(results') = Len(results) + 1
          /\ run'.toPrune = Tail(run.toPrune)
          /\ run'.phase = "prune"
          /\ apps' = apps]_vars

\* the first deletion failed, the second application was deleted all the same
C17_Witness ==
  /\ ~dryRun
  /\ run.phase = "done"
  /\ "a3" \in Uuids(apps) /\ "a5" \notin Uuids(apps)
  /\ \E r \in 1..Len(results) : results[r].name = "old" /\ results[r].action = "failed"
  /\ \E r \in 1..Len(results) : results[r].name = "web" /\ results[r].action = "pruned"

\* the key -> value pairs of a set of variables
Pairs(vs) == {[key |-> v.key, value |-> v.value] : v \in vs}
EnvsOf(as, uuid) == IF uuid \in Uuids(as) THEN AppOf(as, uuid).envs ELSE {}
BulkRequest(uuid) == Request("PATCH", "/api/v1/applications/{uuid}/envs/bulk", uuid)
EnvListRequest(uuid) == Request("GET", "/api/v1/applications/{uuid}/envs", uuid)
EnvDeleteRequest(uuid) ==
  Request("DELETE", "/api/v1/applications/{uuid}/envs/{envUuid}", uuid)

\* C18: in a live run the variables of an application change only in a step of
\* the sync of the resource that owns it. The bulk write is issued once and
\* leaves the application with exactly the declared pairs plus the remote
\* variables of undeclared keys, untouched; it follows the listing, and what is
\* left to delete is then exactly the remote variables whose key is not
\* declared. Each deletion removes one such variable and nothing else. When the
\* sync has completed, the application holds exactly the declared pairs.
C18_EnvVarDiff ==
  /\ [](\A i \in Declared :
          (~dryRun /\ run.phase = "resources") =>
            /\ res[i].pc = "envupsert" =>
                 /\ BulkRequest(res[i].uuid) \notin sent
                 /\ res[i].stale = {e.uuid : e \in {x \in EnvsOf(apps, res[i].uuid) :
                                                      x.key \notin DeclaredKeys}}
            /\ res[i].pc = "envdelete" =>
                 /\ res[i].stale # {}
                 /\ Pairs(EnvsOf(apps, res[i].uuid)) \ DeclaredEnvVars =
                      Pairs({e \in EnvsOf(apps, res[i].uuid) : e.uuid \in res[i].stale})
                 /\ DeclaredEnvVars \subseteq Pairs(EnvsOf(apps, res[i].uuid))
            /\ (res[i].pc = "ready" /\ SyncApplies(manifest.resources[i])) =>
                 /\ Pairs(EnvsOf(apps, res[i].uuid)) = DeclaredEnvVars
                 /\ BulkRequest(res[i].uuid) \in sent)
  /\ [][\A u \in AppUuids :
          (~dryRun /\ u \in Uuids(apps) /\ u \in Uuids(apps')
             /\ EnvsOf(apps', u) # EnvsOf(apps, u)) =>
            \E i \in Declared :
              /\ res[i].uuid = u
              /\ \/ /\ res[i].pc = "envupsert"
                    /\ Pairs(EnvsOf(apps', u)) =
                         DeclaredEnvVars
                         \cup Pairs({e \in EnvsOf(apps, u) : e.key \notin DeclaredKeys})
                    /\ {e \in EnvsOf(apps', u) : e.key \notin DeclaredKeys} =
                         {e \in EnvsOf(apps, u) : e.key \notin DeclaredKeys}
                    /\ BulkRequest(u) \in sent'
                 \/ /\ res[i].pc = "envdelete"
                    /\ \E e \in EnvsOf(apps, u) :
                         /\ e.key \notin DeclaredKeys
                         /\ EnvsOf(apps', u) = EnvsOf(apps, u) \ {e}
                    /\ EnvDeleteRequest(u) \in sent']_vars

\* the example of the specification, completed: the application of "api" held
\* a variable to delete, and now holds A=1 and B=2 only
C18_Witness ==
  /\ ~dryRun
  /\ \E i \in Declared :
       /\ res[i].pc = "ready"
       /\ res[i].uuid = "a1"
       /\ res[i].action = "updated"
  /\ {EnvListRequest("a1"), BulkRequest("a1"), EnvDeleteRequest("a1")} \subseteq sent
  /\ Pairs(EnvsOf(apps, "a1")) = {[key |-> "A", value |-> "1"], [key |-> "B", value |-> "2"]}

\* the resource declares no envSecretName, or no value was supplied for it
NotApplicable(i) ==
  \/ manifest.resources[i].envSecretName = Undefined
  \/ manifest.resources[i].envSecretName \notin envSecrets
EnvRequests(uuid) == {EnvListRequest(uuid), BulkRequest(uuid), EnvDeleteRequest(uuid)}
DeployRequest(uuid) == Request("POST", "/api/v1/deploy", uuid)

\* C19: a resource whose sync does not apply is never in a step of the sync
\* and no env-var list, bulk write or delete is sent for its application; when
\* its create or update returns it is trigger-ready with no result recorded,
\* its deploy can be triggered once every resource is prepared, and in a live
\* run a resource that reached its wait has had its deploy requested.
C19_EnvSyncSkipped ==
  /\ [](\A i \in Declared :
          (NotApplicable(i) /\ run.phase # "idle") =>
            /\ res[i].pc \notin {"envlist", "envupsert", "envdelete"}
            /\ res[i].stale = {}
            /\ res[i].uuid # "dry-run-uuid" => EnvRequests(res[i].uuid) \cap sent = {}
            /\ (run.phase = "resources" /\ AllPrepared /\ res[i].pc = "ready")
                 => ENABLED Trigger(i)
            /\ (~dryRun /\ res[i].pc = "triggered")
                 => DeployRequest(res[i].uuid) \in sent)
  /\ [][\A i \in Declared :
          ( /\ NotApplicable(i)
            /\ res[i].pc \in {"create", "update"}
            /\ res'[i].pc # res[i].pc
            /\ res'[i].action # "none" ) =>
            /\ res'[i].pc = "ready"
            /\ results' = results]_vars

\* a live run with no secret supplied: "api" names a secret, "web" names none;
\* both were deployed and reported, and the variables of "api" are as they were
C19_Witness ==
  /\ ~dryRun
  /\ run.phase = "done"
  /\ envSecrets = {}
  /\ Len(manifest.resources) = 2
  /\ \A i \in Declared :
       /\ NotApplicable(i)
       /\ HasResult(i)
       /\ ResultOf(i).action \in {"created", "updated"}
       /\ DeployRequest(res[i].uuid) \in sent
  /\ Pairs(EnvsOf(apps, "a1")) = {[key |-> "B", value |-> "old"], [key |-> "C", value |-> "3"]}

Exited == run.exitCode # NoExit
\* no entry of the result is a failure
NoFailedEntry == \A k \in 1..Len(results) : results[k].action # "failed"

\* C20: once reconcile() has returned or thrown the command can exit, and it
\* exits once; the code is non-zero exactly when the run aborted on a
\* structural error or the result is not a success, and it is 0 when the
\* result is a success; the code is 0 or 1.
C20_ExitCode ==
  /\ []((run.phase \in {"done", "fatal"} /\ ~Exited) => ENABLED Exit)
  /\ [](Exited =>
          /\ run.phase \in {"done", "fatal"}
          /\ run.exitCode \in {0, 1}
          /\ run.exitCode # 0 <=> (run.phase = "fatal" \/ ~NoFailedEntry)
          /\ (run.phase = "done" /\ NoFailedEntry) => run.exitCode = 0
          /\ (run.exitCode = 0) = ReconcileResult.success)
  /\ [][run'.exitCode # run.exitCode =>
          /\ ~Exited
          /\ run'.exitCode # NoExit
          /\ results' = results
          /\ run'.phase = run.phase]_vars

\* the three ways the command ends: a success, a result with a failure, a
\* structural error
C20_Witness ==
  /\ Exited
  /\ run.phase = "done"
  /\ ~NoFailedEntry
  /\ run.exitCode = 1

C20_WitnessSuccess == Exited /\ run.phase = "done" /\ NoFailedEntry /\ run.exitCode = 0

C20_WitnessFatal == Exited /\ run.phase = "fatal" /\ run.exitCode = 1

\* the last call passed a request to fetch() and received this response
Received(resp) == ret.op # "none" /\ sent # {} /\ ret.resp = resp

\* C21: a call that received a non-2xx response threw; its error carries the
\* remote message when the JSON body has one and the status line otherwise,
\* and the token-scope hint exactly on 401 and 403. A call that returned
\* received a 2xx response, or sent nothing.
C21_TransportErrors ==
  /\ \A resp \in Responses :
       (Received(resp) /\ ~Ok(resp)) =>
         /\ ret.threw
         /\ ret.error.status = resp.status
         /\ ret.error.text = (IF resp.json /\ resp.message THEN "remote message"
                              ELSE "HTTP status: statusText")
         /\ ret.error.hint = (resp.status \in {401, 403})
  /\ (ret.op # "none" /\ ~ret.threw /\ sent # {}) => Ok(ret.resp)

\* a 403 without a JSON body: the status line and the hint
C21_Witness ==
  /\ Received([status |-> 403, json |-> FALSE, message |-> FALSE])
  /\ ret.op = "deleteApplication"
  /\ ret.threw
  /\ ret.error.hint
  /\ ret.error.text = "HTTP status: statusText"

VoidOps == {"updateApplication", "updateEnvironmentVariables",
            "deleteEnvironmentVariable", "deleteApplication"}
ListOps == {"listApplications", "listEnvironmentVariables"}
NullableOps == {"deployApplication", "getDeployment"}
\* the last call received a 2xx response without a JSON body
ReceivedEmpty == ret.op # "none" /\ sent # {} /\ Ok(ret.resp) /\ ~ret.resp.json

\* C22: a call that received a 2xx response with an empty body did not throw
\* when it is an update, a bulk write of variables or a deletion; a listing
\* returned the empty list, a find returned null, and deployApplication and
\* getDeployment returned null.
C22_EmptyBodyIsValid ==
  ReceivedEmpty =>
    /\ ret.op \in VoidOps => ~ret.threw
    /\ ret.op = "listApplications" => ~ret.threw /\ ret.value = <<>>
    /\ ret.op = "listEnvironmentVariables" => ~ret.threw /\ ret.value = {}
    /\ ret.op \in {"findEnvironmentByName", "findApplicationByName"} =>
         ~ret.threw /\ ret.isNull
    /\ ret.op \in NullableOps => ~ret.threw /\ ret.isNull

\* every kind of call has received an empty 2xx answer: here a deployment
C22_Witness ==
  /\ ReceivedEmpty
  /\ ret.op = "deployApplication"
  /\ ~ret.threw
  /\ ret.isNull

C22_WitnessVoid == ReceivedEmpty /\ ret.op = "deleteApplication" /\ ~ret.threw
C22_WitnessList == ReceivedEmpty /\ ret.op = "listApplications" /\ ret.value = <<>> /\ apps # <<>>
C22_WitnessGet == ReceivedEmpty /\ ret.op = "getDeployment" /\ ret.isNull

\* the last call sent a payload built from a resource
SentPayload == ret.op \in {"createDockerImageApplication", "updateApplication"} /\ sent # {}
OptionalFields == {<<"domains", "domains">>, <<"portsExposes", "ports_exposes">>}

\* C23: in the create payload and in the update payload sent to the platform,
\* domains and ports_exposes are absent when the resource's field is absent
\* or the empty string, and hold the resource's value otherwise.
C23_EmptyOptionalFieldsOmitted ==
  SentPayload =>
    \A f \in OptionalFields :
      IF ret.args.resource[f[1]] \in {"", Undefined}
      THEN f[2] \notin DOMAIN ret.args.body
      ELSE /\ f[2] \in DOMAIN ret.args.body
           /\ ret.args.body[f[2]] = ret.args.resource[f[1]]

\* an update sent for a resource with portsExposes = "" and domains declared
C23_Witness ==
  /\ SentPayload
  /\ ret.op = "updateApplication"
  /\ ret.args.resource.portsExposes = ""
  /\ ret.args.resource.domains = "api.example.com"
  /\ "ports_exposes" \notin DOMAIN ret.args.body
  /\ ret.args.body.domains = "api.example.com"

C23_WitnessCreate ==
  /\ SentPayload
  /\ ret.op = "createDockerImageApplication"
  /\ ret.args.resource.portsExposes = ""
  /\ "ports_exposes" \notin DOMAIN ret.args.body

\* the payload key of each healthCheck sub-field
HealthCheckKey ==
  [f \in HealthCheckFields |->
     CASE f = "path" -> "health_check_path"
       [] f = "port" -> "health_check_port"
       [] f = "host" -> "health_check_host"
       [] f = "method" -> "health_check_method"
       [] f = "returnCode" -> "health_check_return_code"
       [] f = "scheme" -> "health_check_scheme"
       [] f = "responseText" -> "health_check_response_text"
       [] f = "interval" -> "health_check_interval"
       [] f = "timeout" -> "health_check_timeout"
       [] f = "retries" -> "health_check_retries"
       [] OTHER -> "health_check_start_period"]
HealthCheckKeys == {"health_check_enabled"} \cup {HealthCheckKey[f] : f \in HealthCheckFields}

\* C24: in the create payload and in the update payload sent to the platform,
\* a resource with a healthCheck has health_check_enabled true and every
\* health_check_* key equal to the declared sub-field, absent when the
\* sub-field is not declared; a resource without healthCheck has none of
\* these keys.
C24_HealthCheckGroup ==
  SentPayload =>
    LET healthCheck == ret.args.resource.healthCheck
        body == ret.args.body
    IN IF healthCheck.declared
       THEN /\ "health_check_enabled" \in DOMAIN body
            /\ body.health_check_enabled = TRUE
            /\ \A f \in HealthCheckFields :
                 IF healthCheck[f] = Undefined
                 THEN HealthCheckKey[f] \notin DOMAIN body
                 ELSE /\ HealthCheckKey[f] \in DOMAIN body
                      /\ body[HealthCheckKey[f]] = healthCheck[f]
       ELSE HealthCheckKeys \cap DOMAIN body = {}

\* a create sent for a resource whose healthCheck declares path and port only
C24_Witness ==
  /\ SentPayload
  /\ ret.op = "createDockerImageApplication"
  /\ ret.args.resource.healthCheck = PathAndPort
  /\ HealthCheckKeys \cap DOMAIN ret.args.body =
       {"health_check_enabled", "health_check_path", "health_check_port"}

C24_WitnessNone ==
  /\ SentPayload
  /\ ret.op = "updateApplication"
  /\ ~ret.args.resource.healthCheck.declared
  /\ HealthCheckKeys \cap DOMAIN ret.args.body = {}

PlacementKeys == {"project_uuid", "server_uuid", "environment_name", "environment_uuid",
                  "destination_uuid"}
NewAppUuids == {NewUuids[i] : i \in 1..Len(NewUuids)}

\* C25: every create payload sent has instant_deploy false and leaves the new
\* application without a deployment; the deployment of an application starts
\* only in a call of deployApplication for it; an update payload has no
\* placement key and no instant_deploy.
C25_CreationNeverDeploys ==
  /\ []((SentPayload /\ ret.op = "createDockerImageApplication") =>
          /\ "instant_deploy" \in DOMAIN ret.args.body
          /\ ret.args.body.instant_deploy = FALSE
          /\ PlacementKeys \subseteq DOMAIN ret.args.body
          /\ ~ret.threw => deployments[ret.value.uuid] = "none")
  /\ []((SentPayload /\ ret.op = "updateApplication") =>
          (PlacementKeys \cup {"instant_deploy"}) \cap DOMAIN ret.args.body = {})
  /\ [][\A u \in AppUuids :
          deployments'[u] # deployments[u] =>
            /\ ret'.op = "deployApplication"
            /\ ret'.args.uuid = u
            /\ HasApp(apps, u)]_vars

\* an application was created and answered, and no deployment of it started
C25_Witness ==
  /\ SentPayload
  /\ ret.op = "createDockerImageApplication"
  /\ ~ret.threw
  /\ ret.value.uuid = "n1"
  /\ HasApp(apps, "n1")
  /\ deployments["n1"] = "none"

\* the created application is deployed by the call that asks for it
C25_WitnessDeployed ==
  /\ ret.op = "deployApplication"
  /\ ret.args.uuid = "n1"
  /\ deployments["n1"] = "queued"

\* the last call was findApplicationByName(name) with no environment id, and
\* the platform answered the listing
NameOnlyLookup ==
  /\ ret.op = "findApplicationByName"
  /\ ret.args.environmentId = UndefinedId
  /\ ~ret.threw
  /\ ret.resp.json

\* C26: findApplicationByName called with a name and no environment id returns
\* a listed application of that name whenever the listing has one, and null
\* only when it has none.
C26_NameOnlyLookup ==
  NameOnlyLookup =>
    /\ ret.isNull <=> ~\E k \in 1..Len(apps) : apps[k].name = ret.args.name
    /\ ~ret.isNull => /\ ret.value.name = ret.args.name
                      /\ ret.value \in Range(apps)

\* rs extends the list shorter by one entry and leaves its entries as they are
AppendsOne(shorter, rs) ==
  /\ Len(rs) = Len(shorter) + 1
  /\ SubSeq(rs, 1, Len(shorter)) = shorter

\* C27: within a run the result list only grows, by one entry at a time, and
\* the entries it holds are never changed. An entry has a terminal action and
\* is appended in the step that ends the processing of its declared resource,
\* or the deletion of the application to prune it stands for. When the
\* declared resources are done each has exactly one entry and the list holds
\* nothing else; every application selected for pruning then adds exactly
\* one, and a completed run has none left to prune.
C27_ResultListShape ==
  /\ [][(run'.round = run.round /\ results' # results) =>
          /\ AppendsOne(results, results')
          /\ LastResult(results').action \in TerminalActions
          /\ \/ /\ run.phase = "resources"
                /\ run'.phase = run.phase
                /\ run'.toPrune = run.toPrune
                /\ \E i \in Declared :
                     /\ LastResult(results').name = manifest.resources[i].name
                     /\ res[i].pc # "done"
                     /\ res'[i].pc = "done"
                     /\ \A j \in Declared \ {i} : res'[j] = res[j]
             \/ /\ run.phase = "prune"
                /\ run.toPrune # <<>>
                /\ LastResult(results').name = Head(run.toPrune).name
                /\ run'.toPrune = Tail(run.toPrune)
                /\ res' = res]_vars
  /\ [][(run'.round = run.round /\ run'.toPrune # run.toPrune) =>
          \/ run.phase = "resources" /\ run'.phase = "prune" /\ results' = results
          \/ run.phase = "prune" /\ AppendsOne(results, results')]_vars
  /\ [](\A i \in Declared :
          /\ Cardinality(EntriesOf(manifest.resources[i].name)
                         \cap {k \in 1..Len(results) : k <= Len(manifest.resources)})
               = (IF res[i].pc = "done" THEN 1 ELSE 0)
          /\ run.phase \in {"prune", "done"} => res[i].pc = "done")
  /\ []((run.phase = "resources" /\ AllCollected) => Len(results) = Len(manifest.resources))
  /\ [](run.phase = "done" =>
          /\ run.toPrune = <<>>
          /\ Len(results) >= Len(manifest.resources)
          /\ \A k \in 1..Len(results) :
               /\ results[k].action \in TerminalActions
               /\ k > Len(manifest.resources) =>
                    /\ results[k].name \notin DeclaredNames
                    /\ results[k].action \in {"pruned", "failed"})

\* a completed live run of one declared resource, which failed, and two
\* applications to prune: three entries, two of them for the pruning
C27_Witness ==
  /\ ~dryRun
  /\ run.phase = "done"
  /\ Len(manifest.resources) = 1
  /\ Len(results) = 3
  /\ results[1].name \in DeclaredNames
  /\ results[1].action = "failed"
  /\ results[2].name \notin DeclaredNames
  /\ results[3].name \notin DeclaredNames
  /\ results[2].name # results[3].name

\* two declared resources and one application to prune
C27_WitnessTwoDeclared ==
  /\ run.phase = "done"
  /\ Len(manifest.resources) = 2
  /\ Len(results) = 3
  /\ results[3].action = "pruned"

\* the id of the environment the manifest names, when the project has it
TargetEnvironmentId ==
  IF \E e \in 1..Len(Environments) : Environments[e].name = manifest.environmentName
  THEN Environments[CHOOSE e \in 1..Len(Environments) :
                      Environments[e].name = manifest.environmentName].id
  ELSE UndefinedId
InTarget(as) == {a \in Range(as) : a.environment_id = TargetEnvironmentId}
OutsideTarget(as) == {a \in Range(as) : a.environment_id # TargetEnvironmentId}
\* the uuids of the applications the run created or updated
Applied == {res[i].uuid : i \in {j \in Declared : res[j].action # "none"}}

PolledAbsent(t) ==
  /\ wait[t].pc = "loop"
  /\ wait[t].lastSeen # "absent"
  /\ wait'[t].lastSeen = "absent"

\* C29: a poll that finds no deployment does not end the wait: the wait goes
\* to sleep, the sleep lasts at least one interval and leads back to the loop,
\* where the next poll can be issued while the timeout has not elapsed. A poll
\* that then finds the deployment finished ends the wait with success. A wait
\* that ended while the last poll had found no deployment ended with the
\* timeout error, after the timeout elapsed, or with a request error; and a
\* wait whose deployment never becomes visible does end.
C29_AbsentIsNotTerminal ==
  /\ [][\A t \in DOMAIN wait :
          /\ PolledAbsent(t) =>
               /\ wait'[t].pc = "sleep"
               /\ wait'[t].outcome = "pending"
               /\ wait'[t].polled
          /\ (wait[t].pc = "sleep" /\ wait'[t] # wait[t]) =>
               /\ wait'[t].pc = "loop"
               /\ wait'[t].lastSeen = wait[t].lastSeen
               /\ wait'[t].elapsed >= wait[t].elapsed + wait[t].intervalMs
          /\ (wait[t].lastSeen = "absent" /\ wait'[t].lastSeen = "finished") =>
               /\ wait'[t].pc = "done"
               /\ wait'[t].outcome = "finished"
               /\ wait'[t].value = [status |-> "finished",
                                    deployment_uuid |-> wait[t].uuid]]_vars
  /\ [](\A t \in DOMAIN wait :
          /\ wait[t].pc = "sleep" => ENABLED Sleep(t)
          /\ (wait[t].pc = "loop" /\ wait[t].elapsed < wait[t].timeoutMs)
               => ENABLED Poll(t)
          /\ (Ended(t) /\ wait[t].lastSeen = "absent") =>
               /\ wait[t].outcome \in {"timeout", "error"}
               /\ wait[t].outcome = "timeout" => wait[t].elapsed >= wait[t].timeoutMs)
  /\ <>(deployments["a1"] # "none" \/ \A t \in DOMAIN wait : Ended(t))

\* the last poll found no deployment, the wait slept, the deployment has become
\* visible and finished meanwhile, and the timeout has not elapsed
C29_Witness ==
  \E t \in DOMAIN wait :
    /\ ~dryRun
    /\ wait[t].pc = "loop"
    /\ wait[t].polled
    /\ wait[t].lastSeen = "absent"
    /\ wait[t].elapsed >= wait[t].intervalMs
    /\ wait[t].elapsed < wait[t].timeoutMs
    /\ deployments["a1"] = "finished"

\* a deployment that never became visible: the wait timed out
C29_WitnessTimeout ==
  \E t \in DOMAIN wait :
    /\ Ended(t) /\ wait[t].polled /\ wait[t].lastSeen = "absent"
    /\ wait[t].outcome = "timeout"
    /\ deployments["a1"] = "none"

\* the step takes wait t from the loop condition into the loop body
IsPoll(t) == wait[t].pc = "loop" /\ wait'[t] # wait[t] /\ wait'[t].outcome # "timeout"
\* the step leaves the loop of wait t with the timeout error
IsTimeOut(t) == wait[t].pc = "loop" /\ wait'[t].outcome = "timeout"

\* C30: in a live wait the deadline is read before each poll and nowhere
\* else. A poll is issued only while the elapsed time is below the timeout;
\* once it has reached the timeout no poll can be issued and the wait ends
\* with the timeout error, whatever the deployment's status has become since
\* the last poll. A wait with a timeout above zero that ended has polled; a
\* wait with timeout zero ends with the timeout error and never polls.
C30_TimeoutBoundary ==
  /\ [][\A t \in DOMAIN wait :
          /\ IsPoll(t) =>
               /\ wait[t].elapsed < wait[t].timeoutMs
               /\ wait'[t].polled
               /\ Request("GET", "/api/v1/deployments/{uuid}", wait[t].uuid) \in sent'
          /\ IsTimeOut(t) =>
               /\ wait[t].elapsed >= wait[t].timeoutMs
               /\ wait'[t].pc = "done"
               /\ wait'[t].polled = wait[t].polled
               /\ sent' = sent
          /\ (wait[t].pc = "sleep" /\ wait'[t] # wait[t]) =>
               wait'[t].pc = "loop" /\ wait'[t].outcome = "pending"]_vars
  /\ [](\A t \in DOMAIN wait :
          ~dryRun =>
            /\ (wait[t].pc = "loop" /\ wait[t].elapsed >= wait[t].timeoutMs) =>
                 /\ ~ENABLED Poll(t)
                 /\ ENABLED TimeOut(t)
            /\ (wait[t].pc = "loop" /\ wait[t].elapsed < wait[t].timeoutMs) =>
                 /\ ENABLED Poll(t)
                 /\ ~ENABLED TimeOut(t)
            /\ (Ended(t) /\ wait[t].timeoutMs > 0) => wait[t].polled
            /\ (Started(t) /\ wait[t].timeoutMs = 0) =>
                 /\ ~wait[t].polled
                 /\ sent = {}
                 /\ Ended(t) => wait[t].outcome = "timeout")

\* the deployment was in progress at the last poll and finished during the
\* sleep that took the wait to its deadline: the wait can only time out
C30_Witness ==
  \E t \in DOMAIN wait :
    /\ ~dryRun
    /\ wait[t].pc = "loop"
    /\ wait[t].polled
    /\ wait[t].lastSeen = "in_progress"
    /\ wait[t].elapsed >= wait[t].timeoutMs
    /\ wait[t].elapsed - wait[t].intervalMs < wait[t].timeoutMs
    /\ deployments["a1"] = "finished"

\* timeout 0: the timeout error, no poll
C30_WitnessZero ==
  \E t \in DOMAIN wait :
    /\ ~dryRun /\ wait[t].timeoutMs = 0 /\ Ended(t)
    /\ wait[t].outcome = "timeout" /\ ~wait[t].polled /\ sent = {}
    /\ deployments["a1"] = "finished"

====
